---- MODULE Spec2Model ----
(***************************************************************************)
(* A model of wxSystemInformationFrame (src/code/wxsysinfoframe.cpp,       *)
(* version 4.2) and of the list views it hosts.                            *)
(*                                                                         *)
(* Strings are TLA+ strings, wxString::Format and += are \o.  Item and     *)
(* column indices are the 0-based indices of the C++ code; -1 is "none".   *)
(* The tables of system colours, fonts, metrics, paths, options and        *)
(* miscellaneous rows are cut to their first entries: every view keeps at  *)
(* least two rows, which is what selection and export need.                *)
(***************************************************************************)
EXTENDS Integers, Sequences, FiniteSets, TLC

VARIABLES
    phase,                  \* "ctor", "flags": the constructor / Create() runs; "ready"; "destroyed"
    createFlags,            \* the createFlags argument of the constructor
    m_autoRefresh,          \* wxSystemInformationFrame::m_autoRefresh
    m_pages,                \* the notebook: the sequence of its pages (view and tab title)
    m_logCtrl,              \* the log control: whether it exists, and its text (one entry per message)
    m_unloggedInformation,  \* wxSystemInformationFrame::m_unloggedInformation
    m_valuesUpdateTimer,    \* the wxTimer: running, milliseconds left, one-shot
    calls,                  \* the activations of the host UpdateValues() on the UI thread's stack
    sinceNotify,            \* milliseconds since the last change notification (history)
    burst,                  \* change notifications received since the last timer-driven refresh (history)
    file,                   \* the file the user chooses in the Save dialog: whether it exists, and its lines
    saveResult,             \* how the last OnSave() ended (history)
    wxLog,                  \* the errors the last handler reported with wxLogError / wxLogSysError
    saving,                 \* whether the file dialog of OnSave() is open
    m_obtainFullHostNameThread,
                            \* MiscellaneousView::m_obtainFullHostNameThread: the thread, 0 for nullptr
    workers,                \* the threads whose Entry() has not returned yet
    pendingEvents,          \* the wxThreadEvents queued for the Miscellaneous view and not handled yet
    detailsButton,          \* the details button: "none" if Create() makes none, else "enabled" / "disabled"
    currentPage,            \* m_pages->GetSelection() + 1: the page shown, 0 when there is none
    detail,                 \* the last DoShowDetailedInformation(): its caller, item and dialog (history)
    out                     \* the result of the last GetValues() call: of page's view, or of the frame (page -1)

vars == <<phase, createFlags, m_autoRefresh, m_pages, m_logCtrl, m_unloggedInformation,
          m_valuesUpdateTimer, calls, sinceNotify, burst, file, saveResult, wxLog, saving,
          m_obtainFullHostNameThread, workers, pendingEvents, detailsButton, currentPage,
          detail, out>>

-----------------------------------------------------------------------------
(* Program constants *)

AutoRefresh == 1
ViewSystemColours == 2
ViewSystemFonts == 4
ViewSystemMetrics == 8
ViewDisplays == 16
ViewStandardPaths == 32
ViewSystemOptions == 64
ViewEnvironmentVariables == 128
ViewMiscellaneous == 256
ViewPreprocessorDefines == 512

updateTimerDuration == 750

wxLIST_AUTOSIZE == -1
wxLIST_AUTOSIZE_USEHEADER == -2

Column_Name == 0
Column_Value == 1
Column_Description == 2

\* DisplaysView's row parameters
Param_Name == 0
Param_IsPrimary == 2

\* StandardPathsView's row parameters
Param_ExecutablePath == 0
Param_AppDocumentsDir == 1

\* MiscellaneousView's row parameters (wxWidgets 3.1.6 or later)
Param_HostName == 29
Param_FullHostName == 30

-----------------------------------------------------------------------------
(* Bounds of the model *)

Tick == 375          \* the largest step by which time advances
MaxLog == 2          \* entries the log holds (the control, or the buffer used before it exists)
MaxBurst == 2        \* notifications counted in one burst

\* widths a user drags a column to
UserWidths == {40, 90}

\* separators GetValues() is called with
Separators == {"\t", ";"}

\* which InsertItem() call of one constructor or refresh fails (0: none)
InsertFailures == {0, 2}

-----------------------------------------------------------------------------
(* The tables of the views, cut to their first entries *)

s_colourInfoArray ==
    << [name |-> "wxSYS_COLOUR_SCROLLBAR", description |-> "The scrollbar grey area."],
       [name |-> "wxSYS_COLOUR_DESKTOP", description |-> "The desktop colour."] >>

s_fontInfoArray ==
    << [name |-> "wxSYS_OEM_FIXED_FONT",
        description |-> "Original equipment manufacturer dependent fixed-pitch font."],
       [name |-> "wxSYS_ANSI_FIXED_FONT",
        description |-> "Windows fixed-pitch (monospaced) font."] >>

s_metricInfoArray ==
    << [name |-> "wxSYS_MOUSE_BUTTONS",
        description |-> "Number of buttons on mouse, or zero if no mouse was installed."],
       [name |-> "wxSYS_BORDER_X", description |-> "Width of single border."] >>

s_optionNames == << "exit-on-assert", "catch-unhandled-exceptions" >>

\* the rows DisplaysView's constructor appends
s_displayParams ==
    << [label |-> "Name", data |-> Param_Name],
       [label |-> "Is Primary", data |-> Param_IsPrimary] >>

\* the rows StandardPathsView's constructor appends
s_pathParams ==
    << [label |-> "ExecutablePath", data |-> Param_ExecutablePath],
       [label |-> "AppDocumentsDir", data |-> Param_AppDocumentsDir] >>

\* the rows MiscellaneousView's constructor appends
s_miscParams ==
    << [label |-> "Host Name", data |-> Param_HostName],
       [label |-> "Full Host Name", data |-> Param_FullHostName] >>

\* the rows PreprocessorDefinesView appends: APPEND_DEFINE_ITEM(__cplusplus) first,
\* APPEND_HAS_FEATURE_ITEM("wxHAS_MODE_T", hasDefine) last
s_defineItems ==
    << [name |-> "__cplusplus", value |-> "201703L"],
       [name |-> "wxHAS_MODE_T", value |-> "No"] >>

-----------------------------------------------------------------------------
(* What the operating system answers when a view queries it.  A refresh     *)
(* reads one of these snapshots.                                            *)

SysNormal ==
    [ colour   |-> << [ok |-> TRUE, css |-> "rgb(200, 200, 200)", solid |-> TRUE],
                      [ok |-> TRUE, css |-> "rgb(0, 0, 0)", solid |-> TRUE] >>,
      font     |-> << [ok |-> TRUE, desc |-> "Terminal 9"], [ok |-> TRUE, desc |-> "Courier 10"] >>,
      metric   |-> << 3, 1 >>,
      displays |-> << [name |-> "DISPLAY1", primary |-> TRUE] >>,
      paths    |-> << "/usr/bin/app", "/home/u/Documents" >>,
      options  |-> [n \in {} |-> ""],
      envOk    |-> TRUE,
      env      |-> [n \in {"PATH", "HOME"} |-> IF n = "PATH" THEN "/bin" ELSE "/home/u"],
      host     |-> "box" ]

SysChanged ==
    [ colour   |-> << [ok |-> TRUE, css |-> "rgb(10, 10, 10)", solid |-> FALSE],
                      [ok |-> FALSE, css |-> "", solid |-> FALSE] >>,
      font     |-> << [ok |-> FALSE, desc |-> ""], [ok |-> TRUE, desc |-> "Courier 12"] >>,
      metric   |-> << 5, 2 >>,
      displays |-> << [name |-> "DISPLAY1", primary |-> FALSE],
                      [name |-> "DISPLAY2", primary |-> TRUE] >>,
      paths    |-> << "/opt/app", "/home/u/Documents" >>,
      options  |-> [n \in {"exit-on-assert"} |-> "1"],
      envOk    |-> TRUE,
      env      |-> [n \in {"TMP", "HOME", "PATH"} |-> IF n = "TMP" THEN "/tmp" ELSE "/x"],
      host     |-> "box2" ]

SysNoEnv == [SysNormal EXCEPT !.envOk = FALSE]

Sys == {SysNormal, SysChanged, SysNoEnv}

\* operator< of wxString on the names used above
StringOrder == << "HOME", "PATH", "TMP" >>

Rank(s) == CHOOSE i \in 1..Len(StringOrder) : StringOrder[i] = s

StringLess(a, b) == Rank(a) < Rank(b)

-----------------------------------------------------------------------------
(* The list control (wxListView, wxLC_REPORT | wxLC_SINGLE_SEL) the views   *)
(* derive from.  A view is a record:                                        *)
(*   kind            the view's class                                       *)
(*   columns         the column headings                                    *)
(*   rows            the items: the text of each column, and the item data  *)
(*   selected        the selected item, focused: the focused item           *)
(*   m_columnWidths  SysInfoListView::m_columnWidths                        *)
(*   colWidth        per column, the width last given to the control: a     *)
(*                   number of pixels, or one of the wxLIST_AUTOSIZE values *)
(***************************************************************************)

Min(a, b) == IF a < b THEN a ELSE b

EmptyMap == [c \in {} |-> 0]

NewListView(kind) ==
    [ kind |-> kind, columns |-> <<>>, rows |-> <<>>, selected |-> -1, focused |-> -1,
      m_columnWidths |-> EmptyMap, colWidth |-> <<>> ]

GetItemCount(v) == Len(v.rows)

GetColumnCount(v) == Len(v.columns)

GetFirstSelected(v) == v.selected

GetItemData(v, i) == v.rows[i + 1].data

GetItemText(v, i, col) == v.rows[i + 1].text[col + 1]

\* InsertColumn(GetColumnCount(), heading) / AppendColumn(heading): every item gets an
\* empty cell in the new column
AppendColumn(v, heading) ==
    [v EXCEPT !.columns = Append(@, heading),
              !.colWidth = Append(@, wxLIST_AUTOSIZE),
              !.rows = [i \in 1..Len(@) |-> [@[i] EXCEPT !.text = Append(@, "")]]]

\* DeleteColumn(col): the column and every item's cell in it go
DeleteColumn(v, col) ==
    LET Cut(q) == SubSeq(q, 1, col) \o SubSeq(q, col + 2, Len(q))
    IN  [v EXCEPT !.columns = Cut(@),
                  !.colWidth = Cut(@),
                  !.rows = [i \in 1..Len(@) |-> [@[i] EXCEPT !.text = Cut(@)]]]

\* InsertItem(GetItemCount(), label): a new last item with item data 0; ok = FALSE is
\* the control failing to insert, when InsertItem() returns -1 and nothing changes
InsertItem(v, label, ok) ==
    IF ok
    THEN [v EXCEPT !.rows = Append(@, [text |-> <<label>> \o [c \in 1..(Len(v.columns) - 1) |-> ""],
                                       data |-> 0])]
    ELSE v

\* the index InsertItem(v, label, ok) returns
InsertedIndex(v, ok) == IF ok THEN GetItemCount(v) ELSE -1

SetItemData(v, i, data) == [v EXCEPT !.rows[i + 1].data = data]

\* SetItem(i, col, text): fails, changing nothing, for an index that is no item
SetItem(v, i, col, text) ==
    IF i >= 0 /\ i < GetItemCount(v) /\ col < GetColumnCount(v)
    THEN [v EXCEPT !.rows[i + 1].text[col + 1] = text]
    ELSE v

DeleteAllItems(v) == [v EXCEPT !.rows = <<>>, !.selected = -1, !.focused = -1]

\* Select(n): with wxLC_SINGLE_SEL the item becomes the only selected one
Select(v, n) == [v EXCEPT !.selected = n]

Focus(v, n) == [v EXCEPT !.focused = n]

SetColumnWidth(v, col, width) == [v EXCEPT !.colWidth[col + 1] = width]

GetColumnWidth(v, col) == v.colWidth[col + 1]

-----------------------------------------------------------------------------
(* SysInfoListView *)

\* SysInfoListView::AppendItemWithData
AppendItemWithData(v, label, data, ok) ==
    LET itemIndex == InsertedIndex(v, ok)
        w == InsertItem(v, label, ok)
    IN  IF itemIndex = -1 THEN w ELSE SetItemData(w, itemIndex, data)

\* AutoSizeColumns with a fault: the recorded widths are not looked up
AutoSizeColumns_IgnoresRecorded(v) ==
    [v EXCEPT !.colWidth = [c \in 1..Len(@) |-> wxLIST_AUTOSIZE]]

\* SysInfoListView::AutoSizeColumns: the loop over the columns, from column i on
RECURSIVE AutoSizeColumnsFrom(_, _)
AutoSizeColumnsFrom(v, i) ==
    IF i >= GetColumnCount(v)
    THEN v
    ELSE AutoSizeColumnsFrom(
             IF i \in DOMAIN v.m_columnWidths
             THEN SetColumnWidth(v, i, v.m_columnWidths[i])
             ELSE SetColumnWidth(v, i, wxLIST_AUTOSIZE),
             i + 1)

AutoSizeColumns(v) == AutoSizeColumnsFrom(v, 0)

\* SysInfoListView::GetNameAndValueValues: the loop over the items, from item i on
RECURSIVE DumpNameAndValue(_, _, _, _, _)
DumpNameAndValue(v, nameColumnIndex, valueColumnIndex, separator, i) ==
    IF i >= GetItemCount(v)
    THEN <<>>
    ELSE << GetItemText(v, i, nameColumnIndex) \o separator \o GetItemText(v, i, valueColumnIndex) >>
         \o DumpNameAndValue(v, nameColumnIndex, valueColumnIndex, separator, i + 1)

\* GetNameAndValueValues with a fault: the column headings are not pushed
GetNameAndValueValues_NoHeader(v, nameColumnIndex, valueColumnIndex, separator) ==
    DumpNameAndValue(v, nameColumnIndex, valueColumnIndex, separator, 0)

\* SysInfoListView::GetNameAndValueValues
GetNameAndValueValues(v, nameColumnIndex, valueColumnIndex, separator) ==
    << "Name" \o separator \o "Value" >>
    \o DumpNameAndValue(v, nameColumnIndex, valueColumnIndex, separator, 0)

-----------------------------------------------------------------------------
(* The views.  s is the snapshot of the system a query reads; f says which  *)
(* InsertItem() call of the operation fails (0: none).                      *)

\* SystemSettingView::SystemSettingView
SystemSettingView(kind) ==
    AppendColumn(AppendColumn(AppendColumn(NewListView(kind), "Name"), "Value"), "Description")

\* the two-column views' constructors: InsertColumn(Column_Name), InsertColumn(Column_Value)
NameValueView(kind) == AppendColumn(AppendColumn(NewListView(kind), "Name"), "Value")

\* the constructor loop of SystemColourView, SystemFontView and SystemMetricView over
\* their table: insert the item, set its description and its data (the table index)
AppendSettingItems(v, table, f) ==
    LET Step[i \in 0..Len(table)] ==
            IF i = 0 THEN v
            ELSE LET w == Step[i - 1]
                     ok == i # f
                     itemIndex == InsertedIndex(w, ok)
                     x == AppendItemWithData(w, table[i].name, i - 1, ok)
                 IN  IF itemIndex # -1
                     THEN SetItem(x, itemIndex, Column_Description, table[i].description)
                     ELSE x
    IN  Step[Len(table)]

\* the constructor's AppendItemWithData(label, param) calls of DisplaysView,
\* StandardPathsView and MiscellaneousView
AppendParamItems(v, params, f) ==
    LET Step[i \in 0..Len(params)] ==
            IF i = 0 THEN v
            ELSE AppendItemWithData(Step[i - 1], params[i].label, params[i].data, i # f)
    IN  Step[Len(params)]

\* the loop "for i < itemCount: SetItem(i, Column_Value, value of item i)"
SetValues(v, value) ==
    LET Step[i \in 0..GetItemCount(v)] ==
            IF i = 0 THEN v ELSE SetItem(Step[i - 1], i - 1, Column_Value, value[i - 1])
    IN  Step[GetItemCount(v)]

\* SystemColourView::DoUpdateValues
SystemColourView_DoUpdateValues(v, s) ==
    LET Value(i) ==
            LET colour == s.colour[GetItemData(v, i) + 1]
            IN  IF colour.ok
                THEN colour.css \o (IF ~colour.solid THEN ", not solid" ELSE "")
                ELSE "<Invalid>"
    IN  SetValues(v, [i \in 0..(GetItemCount(v) - 1) |-> Value(i)])

\* SystemFontView::DoUpdateValues with a fault: the loop ends at the first invalid font
SystemFontView_DoUpdateValues_StopsAtInvalid(v, s) ==
    LET Invalid(i) == ~s.font[GetItemData(v, i) + 1].ok
        Value(i) ==
            IF \E j \in 0..(i - 1) : Invalid(j) THEN GetItemText(v, i, Column_Value)
            ELSE IF Invalid(i) THEN "<Invalid>"
            ELSE s.font[GetItemData(v, i) + 1].desc
    IN  SetValues(v, [i \in 0..(GetItemCount(v) - 1) |-> Value(i)])

\* SystemFontView::DoUpdateValues
SystemFontView_DoUpdateValues(v, s) ==
    LET Value(i) ==
            LET font == s.font[GetItemData(v, i) + 1]
            IN  IF font.ok THEN font.desc ELSE "<Invalid>"
    IN  SetValues(v, [i \in 0..(GetItemCount(v) - 1) |-> Value(i)])

\* SystemMetricView::DoUpdateValues
SystemMetricView_DoUpdateValues(v, s) ==
    LET Value(i) == ToString(s.metric[GetItemData(v, i) + 1])
    IN  SetValues(v, [i \in 0..(GetItemCount(v) - 1) |-> Value(i)])

\* the loop of DeleteColumn(1) with a fault: the widths recorded for the columns
\* deleted are forgotten
DeleteDisplayColumns_ForgetsWidths(v) ==
    [v EXCEPT !.columns = SubSeq(@, 1, 1),
              !.colWidth = SubSeq(@, 1, 1),
              !.rows = [i \in 1..Len(@) |-> [@[i] EXCEPT !.text = SubSeq(@, 1, 1)]],
              !.m_columnWidths = [c \in DOMAIN @ \cap {0} |-> @[c]]]

\* DisplaysView::DoUpdateValues: while ( GetColumnCount() > 1 ) DeleteColumn(1);
RECURSIVE DeleteDisplayColumns(_)
DeleteDisplayColumns(v) ==
    IF GetColumnCount(v) > 1 THEN DeleteDisplayColumns(DeleteColumn(v, 1)) ELSE v

\* DisplaysView::DoUpdateValues: the value of one parameter of one display
DisplayValue(param, display) ==
    CASE param = Param_Name -> display.name
      [] param = Param_IsPrimary -> (IF display.primary THEN "Yes" ELSE "No")
      [] OTHER -> ""

\* DisplaysView::DoUpdateValues
DisplaysView_DoUpdateValues(v, s) ==
    LET displayCount == Len(s.displays)
        cleared == DeleteDisplayColumns(v)
        itemCount == GetItemCount(cleared)
        Fill(w, displayIndex) ==
            LET columnIndex == displayIndex + 1
                Item[i \in 0..itemCount] ==
                    IF i = 0 THEN AppendColumn(w, "wxDisplay(" \o ToString(displayIndex) \o ")")
                    ELSE SetItem(Item[i - 1], i - 1, columnIndex,
                                 DisplayValue(GetItemData(w, i - 1), s.displays[displayIndex + 1]))
            IN  Item[itemCount]
        Display[d \in 0..displayCount] ==
            IF d = 0 THEN cleared ELSE Fill(Display[d - 1], d - 1)
    IN  Display[displayCount]

\* StandardPathsView::DoUpdateValues
\* StandardPathsView::DoUpdateValues with a fault: the rows are appended again
StandardPathsView_DoUpdateValues_Reappends(v, s) ==
    LET w == AppendParamItems(v, s_pathParams, 0)
        Value(i) ==
            LET param == GetItemData(w, i)
            IN  CASE param = Param_ExecutablePath -> s.paths[1]
                  [] param = Param_AppDocumentsDir -> s.paths[2]
                  [] OTHER -> ""
    IN  SetValues(w, [i \in 0..(GetItemCount(w) - 1) |-> Value(i)])

\* StandardPathsView::DoUpdateValues
StandardPathsView_DoUpdateValues(v, s) ==
    LET Value(i) ==
            LET param == GetItemData(v, i)
            IN  CASE param = Param_ExecutablePath -> s.paths[1]
                  [] param = Param_AppDocumentsDir -> s.paths[2]
                  [] OTHER -> ""
    IN  SetValues(v, [i \in 0..(GetItemCount(v) - 1) |-> Value(i)])

\* SysOptToString
SysOptToString(s, name) ==
    IF name \in DOMAIN s.options THEN s.options[name] ELSE "<Not Set>"

\* SystemOptionsView::DoUpdateValues
SystemOptionsView_DoUpdateValues(v, s, f) ==
    LET Step[i \in 0..Len(s_optionNames)] ==
            IF i = 0 THEN DeleteAllItems(v)
            ELSE LET w == Step[i - 1]
                     ok == i # f
                     itemIndex == InsertedIndex(w, ok)
                     x == InsertItem(w, s_optionNames[i], ok)
                 IN  IF itemIndex # -1
                     THEN SetItem(x, itemIndex, Column_Value, SysOptToString(s, s_optionNames[i]))
                     ELSE x
    IN  Step[Len(s_optionNames)]

\* the keys of std::map<wxString, wxString> variablesSorted in iteration order
RECURSIVE SortedNames(_)
SortedNames(S) ==
    IF S = {} THEN <<>>
    ELSE LET first == CHOOSE x \in S : \A y \in S : ~StringLess(y, x)
         IN  <<first>> \o SortedNames(S \ {first})

\* EnvironmentVariablesView::DoUpdateValues with a fault: each row is inserted
\* before the others
EnvironmentVariablesView_DoUpdateValues_InsertsFirst(v, s, f) ==
    LET variablesSorted == SortedNames(DOMAIN s.env)
        Step[i \in 0..Len(variablesSorted)] ==
            IF i = 0 THEN DeleteAllItems(v)
            ELSE [Step[i - 1] EXCEPT !.rows =
                      << [text |-> << variablesSorted[i], s.env[variablesSorted[i]] >>,
                          data |-> 0] >> \o @]
    IN  IF ~s.envOk THEN DeleteAllItems(v) ELSE Step[Len(variablesSorted)]

\* EnvironmentVariablesView::DoUpdateValues with a fault: when the environment
\* cannot be read the rows are left as they are
EnvironmentVariablesView_DoUpdateValues_KeepsRows(v, s, f) ==
    LET variablesSorted == SortedNames(DOMAIN s.env)
        Step[i \in 0..Len(variablesSorted)] ==
            IF i = 0 THEN DeleteAllItems(v)
            ELSE LET w == Step[i - 1]
                     ok == i # f
                     itemIndex == InsertedIndex(w, ok)
                     x == InsertItem(w, variablesSorted[i], ok)
                 IN  IF itemIndex # -1
                     THEN SetItem(x, itemIndex, Column_Value, s.env[variablesSorted[i]])
                     ELSE x
    IN  IF ~s.envOk THEN v ELSE Step[Len(variablesSorted)]

\* EnvironmentVariablesView::DoUpdateValues
EnvironmentVariablesView_DoUpdateValues(v, s, f) ==
    LET variablesSorted == SortedNames(DOMAIN s.env)
        Step[i \in 0..Len(variablesSorted)] ==
            IF i = 0 THEN DeleteAllItems(v)
            ELSE LET w == Step[i - 1]
                     ok == i # f
                     itemIndex == InsertedIndex(w, ok)
                     x == InsertItem(w, variablesSorted[i], ok)
                 IN  IF itemIndex # -1
                     THEN SetItem(x, itemIndex, Column_Value, s.env[variablesSorted[i]])
                     ELSE x
    IN  IF ~s.envOk THEN DeleteAllItems(v) ELSE Step[Len(variablesSorted)]

\* MiscellaneousView::DoUpdateValues with a fault: the full host name is looked up
\* on the spot
MiscellaneousView_DoUpdateValues_Synchronous(v, s) ==
    LET Value(i) ==
            LET param == GetItemData(v, i)
            IN  CASE param = Param_HostName -> s.host
                  [] param = Param_FullHostName -> s.host \o ".example.org"
                  [] OTHER -> ""
    IN  SetValues(v, [i \in 0..(GetItemCount(v) - 1) |-> Value(i)])

\* MiscellaneousView::DoUpdateValues: the values of the rows; the thread it starts
\* first is in UpdateValues_Threads
MiscellaneousView_DoUpdateValues(v, s) ==
    LET Value(i) ==
            LET param == GetItemData(v, i)
            IN  CASE param = Param_HostName -> s.host
                  [] param = Param_FullHostName -> "<Evaluating...>"
                  [] OTHER -> ""
    IN  SetValues(v, [i \in 0..(GetItemCount(v) - 1) |-> Value(i)])

\* PreprocessorDefinesView::DoUpdateValues with a fault: the items are appended
\* whether or not the view has items already
PreprocessorDefinesView_DoUpdateValues_Refills(v, f) ==
    LET Step[i \in 0..Len(s_defineItems)] ==
            IF i = 0 THEN v
            ELSE LET w == Step[i - 1]
                     ok == i # f
                 IN  SetItem(InsertItem(w, s_defineItems[i].name, ok), InsertedIndex(w, ok),
                             Column_Value, s_defineItems[i].value)
    IN  Step[Len(s_defineItems)]

\* PreprocessorDefinesView::DoUpdateValues: APPEND_DEFINE_ITEM and
\* APPEND_HAS_FEATURE_ITEM do not test the index InsertItem() returns
PreprocessorDefinesView_DoUpdateValues(v, f) ==
    LET Step[i \in 0..Len(s_defineItems)] ==
            IF i = 0 THEN v
            ELSE LET w == Step[i - 1]
                     ok == i # f
                 IN  SetItem(InsertItem(w, s_defineItems[i].name, ok), InsertedIndex(w, ok),
                             Column_Value, s_defineItems[i].value)
    IN  IF GetItemCount(v) > 0 THEN v ELSE Step[Len(s_defineItems)]

\* the virtual call DoUpdateValues()
DoUpdateValues(v, s, f) ==
    CASE v.kind = "SystemColourView" -> SystemColourView_DoUpdateValues(v, s)
      [] v.kind = "SystemFontView" -> SystemFontView_DoUpdateValues(v, s)
      [] v.kind = "SystemMetricView" -> SystemMetricView_DoUpdateValues(v, s)
      [] v.kind = "DisplaysView" -> DisplaysView_DoUpdateValues(v, s)
      [] v.kind = "StandardPathsView" -> StandardPathsView_DoUpdateValues(v, s)
      [] v.kind = "SystemOptionsView" -> SystemOptionsView_DoUpdateValues(v, s, f)
      [] v.kind = "EnvironmentVariablesView" -> EnvironmentVariablesView_DoUpdateValues(v, s, f)
      [] v.kind = "MiscellaneousView" -> MiscellaneousView_DoUpdateValues(v, s)
      [] v.kind = "PreprocessorDefinesView" -> PreprocessorDefinesView_DoUpdateValues(v, f)

\* SysInfoListView::UpdateValues: if no item is selected, the first one is selected and focused
SelectFirstIfNone(v) ==
    IF GetFirstSelected(v) = -1 /\ GetItemCount(v) > 0
    THEN Focus(Select(v, 0), 0)
    ELSE v

\* SysInfoListView::UpdateValues
SysInfoListView_UpdateValues(v, s, f) ==
    SelectFirstIfNone(AutoSizeColumns(DoUpdateValues(v, s, f)))

\* the constructors of the nine views, each ending in UpdateValues()
SystemColourView(s, f) ==
    SysInfoListView_UpdateValues(
        AppendSettingItems(SysInfoListView_UpdateValues(SystemSettingView("SystemColourView"), s, 0),
                           s_colourInfoArray, f),
        s, 0)

SystemFontView(s, f) ==
    SysInfoListView_UpdateValues(
        AppendSettingItems(SystemSettingView("SystemFontView"), s_fontInfoArray, f), s, 0)

SystemMetricView(s, f) ==
    SysInfoListView_UpdateValues(
        [AppendSettingItems(SystemSettingView("SystemMetricView"), s_metricInfoArray, f)
            EXCEPT !.m_columnWidths = (Column_Value :> wxLIST_AUTOSIZE_USEHEADER)],
        s, 0)

DisplaysView(s, f) ==
    SysInfoListView_UpdateValues(
        AppendParamItems(AppendColumn(NewListView("DisplaysView"), "Parameter"), s_displayParams, f),
        s, 0)

StandardPathsView(s, f) ==
    SysInfoListView_UpdateValues(
        AppendParamItems(NameValueView("StandardPathsView"), s_pathParams, f), s, 0)

SystemOptionsView(s, f) ==
    SysInfoListView_UpdateValues(NameValueView("SystemOptionsView"), s, f)

EnvironmentVariablesView(s, f) ==
    SysInfoListView_UpdateValues(NameValueView("EnvironmentVariablesView"), s, f)

MiscellaneousView(s, f) ==
    SysInfoListView_UpdateValues(
        AppendParamItems(NameValueView("MiscellaneousView"), s_miscParams, f), s, 0)

PreprocessorDefinesView(s, f) ==
    SysInfoListView_UpdateValues(NameValueView("PreprocessorDefinesView"), s, f)

\* DisplaysView::GetValues
DisplaysView_GetValues(v, separator) ==
    LET itemCount == GetItemCount(v)
        columnCount == GetColumnCount(v)
        Heading[c \in 0..columnCount] ==
            IF c <= 1 THEN "Parameter" ELSE Heading[c - 1] \o separator \o v.columns[c]
        Line(itemIndex) ==
            LET Cell[c \in 0..columnCount] ==
                    IF c <= 1 THEN GetItemText(v, itemIndex, 0)
                    ELSE Cell[c - 1] \o separator \o GetItemText(v, itemIndex, c - 1)
            IN  Cell[columnCount]
    IN  << Heading[columnCount] >> \o [i \in 1..itemCount |-> Line(i - 1)]

\* GetValues with a fault: only the selected item is dumped
GetValues_OnlySelected(v, separator) ==
    << "Name" \o separator \o "Value" >>
    \o (IF GetFirstSelected(v) = -1 THEN <<>>
        ELSE << GetItemText(v, GetFirstSelected(v), Column_Name) \o separator
                \o GetItemText(v, GetFirstSelected(v), Column_Value) >>)

\* the virtual call GetValues(separator)
GetValues(v, separator) ==
    IF v.kind = "DisplaysView"
    THEN DisplaysView_GetValues(v, separator)
    ELSE GetNameAndValueValues(v, Column_Name, Column_Value, separator)

\* CanShowDetailedInformation(): false in SysInfoListView, overridden by
\* SystemColourView and SystemFontView
CanShowDetailedInformation(v) ==
    IF v.kind \in {"SystemColourView", "SystemFontView"} THEN GetFirstSelected(v) # -1 ELSE FALSE

\* wxListCtrl::GetItemData(item): the data of the item; for an index that is none
\* of an item the native control returns 0 and the generic one fails an assertion
\* first (-1 stands for that)
GetItemData_Outcomes(v, item) ==
    IF item >= 0 /\ item < GetItemCount(v) THEN {GetItemData(v, item)} ELSE {0, -1}

\* SystemColourView::DoShowDetailedInformation for the table entry infoArrayIndex:
\* the error it logs, or the title of the dialog it opens
SystemColourView_Details(infoArrayIndex, s) ==
    IF ~s.colour[infoArrayIndex + 1].ok
    THEN [log |-> << "Invalid colour for \"" \o s_colourInfoArray[infoArrayIndex + 1].name \o "\"." >>,
          title |-> ""]
    ELSE [log |-> << >>, title |-> "Viewing " \o s_colourInfoArray[infoArrayIndex + 1].name]

\* SystemFontView::DoShowDetailedInformation for the table entry infoArrayIndex
SystemFontView_Details(infoArrayIndex, s) ==
    IF ~s.font[infoArrayIndex + 1].ok
    THEN [log |-> << "Invalid font for \"" \o s_fontInfoArray[infoArrayIndex + 1].name \o "\"." >>,
          title |-> ""]
    ELSE [log |-> << >>, title |-> "Viewing " \o s_fontInfoArray[infoArrayIndex + 1].name]

AssertionFailure == [log |-> << >>, title |-> "Assertion failure"]

NoDetails == [log |-> << >>, title |-> ""]

\* the virtual call DoShowDetailedInformation(listItemIndex): what it can do
DoShowDetailedInformation(v, listItemIndex, s) ==
    CASE v.kind = "SystemColourView" ->
             { IF d = -1 THEN AssertionFailure ELSE SystemColourView_Details(d, s) :
                   d \in GetItemData_Outcomes(v, listItemIndex) }
      [] v.kind = "SystemFontView" ->
             { IF d = -1 THEN AssertionFailure ELSE SystemFontView_Details(d, s) :
                   d \in GetItemData_Outcomes(v, listItemIndex) }
      [] OTHER -> { NoDetails }

\* SysInfoListView::ShowDetailedInformation
ShowDetailedInformation(v, s) == DoShowDetailedInformation(v, GetFirstSelected(v), s)

\* OnItemActivated with a fault: the details shown are those of the selected row
SysInfoListView_OnItemActivated_Selected(v, index, s) ==
    DoShowDetailedInformation(v, GetFirstSelected(v), s)

\* SysInfoListView::OnItemActivated for the event of item index
SysInfoListView_OnItemActivated(v, index, s) ==
    DoShowDetailedInformation(v, index, s)

-----------------------------------------------------------------------------
(* The worker thread of MiscellaneousView.  t is the state of the threads:  *)
(*   thread   m_obtainFullHostNameThread                                    *)
(*   workers  the threads whose Entry() has not returned yet                *)
(*   events   the events queued for the view, each with the thread it is of *)
(***************************************************************************)

ThreadState ==
    [thread |-> m_obtainFullHostNameThread, workers |-> workers, events |-> pendingEvents]

\* wxGetFullHostName()
wxGetFullHostName(s) == s.host \o ".example.org"

\* the identity of the object `new ObtainFullHostNameThread(this)` returns: one that
\* no thread and no queued event has
NewThread(t) ==
    LET inUse == t.workers \cup {t.thread} \cup {t.events[i].thread : i \in DOMAIN t.events}
    IN  CHOOSE id \in 1..(Cardinality(inUse) + 1) :
            id \notin inUse /\ \A j \in 1..(id - 1) : j \in inUse

\* ObtainFullHostNameThread::Entry of thread id, to its return: the event with the
\* full host name is queued for the view
Entry(t, id, fullHostName) ==
    [t EXCEPT !.workers = @ \ {id},
              !.events = Append(@, [string |-> fullHostName, thread |-> id])]

\* wxThread::Delete of a joinable thread: the caller waits until the thread has
\* ended.  Entry() does not call TestDestroy(), so the thread goes on to the end
\* of Entry(): fullHostName is what wxGetFullHostName() returns to it.
wxThread_Delete(t, fullHostName) ==
    IF t.thread \notin t.workers THEN t ELSE Entry(t, t.thread, fullHostName)

\* StopObtainFullHostNameThread with a fault: the thread is let go, not joined
StopObtainFullHostNameThread_NoJoin(t, fullHostName) == [t EXCEPT !.thread = 0]

\* MiscellaneousView::StopObtainFullHostNameThread
StopObtainFullHostNameThread(t, fullHostName) ==
    IF t.thread # 0
    THEN [wxThread_Delete(t, fullHostName) EXCEPT !.thread = 0]
    ELSE t

\* StartObtainFullHostNameThread: new ObtainFullHostNameThread(this) and Run();
\* when Run() fails the object is deleted and the pointer reset
RunNewThread(t, id, runOk) ==
    IF runOk THEN [t EXCEPT !.thread = id, !.workers = @ \cup {id}] ELSE [t EXCEPT !.thread = 0]

\* MiscellaneousView::StartObtainFullHostNameThread
StartObtainFullHostNameThread(t, fullHostName, runOk) ==
    RunNewThread(StopObtainFullHostNameThread(t, fullHostName),
                 NewThread(StopObtainFullHostNameThread(t, fullHostName)), runOk)

\* the threads after SysInfoListView::UpdateValues() of a view of this kind: only
\* MiscellaneousView::DoUpdateValues starts one
UpdateValues_Threads(kind, t, fullHostName, runOk) ==
    IF kind = "MiscellaneousView"
    THEN StartObtainFullHostNameThread(t, fullHostName, runOk)
    ELSE t

\* what the thread of a view of this kind can meet: only a MiscellaneousView has one
ThreadInputs(kind, inputs, none) == IF kind = "MiscellaneousView" THEN inputs ELSE {none}

\* the errors SysInfoListView::UpdateValues() of a view of this kind reports
UpdateValues_Errors(kind, s, runOk) ==
    IF kind = "EnvironmentVariablesView" /\ ~s.envOk
    THEN << "Could not retrieve system environment variables." >>
    ELSE IF kind = "MiscellaneousView" /\ ~runOk
    THEN << "Could not create the thread needed to obtain the full host name." >>
    ELSE << >>

\* the errors the constructor of a view reports: the one of AppendItemWithData for
\* the label whose InsertItem() fails, then those of its UpdateValues()
Constructor_Errors(kind, labels, s, f, runOk) ==
    (IF f \in DOMAIN labels
     THEN << "Could not insert item with label '" \o labels[f] \o "'" >>
     ELSE << >>)
    \o UpdateValues_Errors(kind, s, runOk)

\* MiscellaneousView::OnObtainFullHostNameThread
MiscellaneousView_OnObtainFullHostNameThread(v, string) ==
    LET found == { i \in 0..(GetItemCount(v) - 1) : GetItemData(v, i) = Param_FullHostName }
    IN  IF found # {}
        THEN SetItem(v, CHOOSE i \in found : \A j \in found : i <= j, Column_Value, string)
        ELSE v

-----------------------------------------------------------------------------
(* wxSystemInformationFrame *)

\* no detail was asked for yet
NoDetail == [by |-> "none", page |-> 0, item |-> -1, title |-> ""]

\* createFlags & flag
HasFlag(flags, flag) == (flags \div flag) % 2 = 1

\* if ( createFlags & flag ) m_pages->AddPage(view, text): the pages it adds
AddPage(flags, flag, view, text) ==
    IF HasFlag(flags, flag) THEN << [view |-> view, text |-> text] >> ELSE << >>

\* Create() with a fault: the Miscellaneous page is added first
CreatePages_MiscellaneousFirst(flags, s, f) ==
    AddPage(flags, ViewMiscellaneous, MiscellaneousView(s, f), "Miscellaneous")
    \o AddPage(flags, ViewSystemColours, SystemColourView(s, f), "wxSYS Colours")
    \o AddPage(flags, ViewSystemFonts, SystemFontView(s, f), "wxSYS Fonts")
    \o AddPage(flags, ViewSystemMetrics, SystemMetricView(s, f), "wxSYS Metrics")
    \o AddPage(flags, ViewDisplays, DisplaysView(s, f), "Displays")
    \o AddPage(flags, ViewStandardPaths, StandardPathsView(s, f), "Standard Paths")
    \o AddPage(flags, ViewSystemOptions, SystemOptionsView(s, f), "System Options")
    \o AddPage(flags, ViewEnvironmentVariables, EnvironmentVariablesView(s, f),
               "Environment Variables")
    \o AddPage(flags, ViewPreprocessorDefines, PreprocessorDefinesView(s, f),
               "Preprocessor Defines")

\* Create(): the notebook's pages, one per View flag, in the order of the code
CreatePages(flags, s, f) ==
    AddPage(flags, ViewSystemColours, SystemColourView(s, f), "wxSYS Colours")
    \o AddPage(flags, ViewSystemFonts, SystemFontView(s, f), "wxSYS Fonts")
    \o AddPage(flags, ViewSystemMetrics, SystemMetricView(s, f), "wxSYS Metrics")
    \o AddPage(flags, ViewDisplays, DisplaysView(s, f), "Displays")
    \o AddPage(flags, ViewStandardPaths, StandardPathsView(s, f), "Standard Paths")
    \o AddPage(flags, ViewSystemOptions, SystemOptionsView(s, f), "System Options")
    \o AddPage(flags, ViewEnvironmentVariables, EnvironmentVariablesView(s, f),
               "Environment Variables")
    \o AddPage(flags, ViewMiscellaneous, MiscellaneousView(s, f), "Miscellaneous")
    \o AddPage(flags, ViewPreprocessorDefines, PreprocessorDefinesView(s, f),
               "Preprocessor Defines")

\* if ( createFlags & flag ): the errors the constructor of the page's view reports
AddPage_Errors(flags, flag, errors) == IF HasFlag(flags, flag) THEN errors ELSE << >>

\* the names, or the labels, of a table's rows
Names(table) == [i \in DOMAIN table |-> table[i].name]

Labels(params) == [i \in DOMAIN params |-> params[i].label]

\* Create(): the errors the constructors of the views report, in the order of the pages
CreatePages_Errors(flags, s, f, runOk) ==
    AddPage_Errors(flags, ViewSystemColours,
                   Constructor_Errors("SystemColourView", Names(s_colourInfoArray), s, f, runOk))
    \o AddPage_Errors(flags, ViewSystemFonts,
                      Constructor_Errors("SystemFontView", Names(s_fontInfoArray), s, f, runOk))
    \o AddPage_Errors(flags, ViewSystemMetrics,
                      Constructor_Errors("SystemMetricView", Names(s_metricInfoArray), s, f, runOk))
    \o AddPage_Errors(flags, ViewDisplays,
                      Constructor_Errors("DisplaysView", Labels(s_displayParams), s, f, runOk))
    \o AddPage_Errors(flags, ViewStandardPaths,
                      Constructor_Errors("StandardPathsView", Labels(s_pathParams), s, f, runOk))
    \o AddPage_Errors(flags, ViewSystemOptions,
                      Constructor_Errors("SystemOptionsView", << >>, s, f, runOk))
    \o AddPage_Errors(flags, ViewEnvironmentVariables,
                      Constructor_Errors("EnvironmentVariablesView", << >>, s, f, runOk))
    \o AddPage_Errors(flags, ViewMiscellaneous,
                      Constructor_Errors("MiscellaneousView", Labels(s_miscParams), s, f, runOk))
    \o AddPage_Errors(flags, ViewPreprocessorDefines,
                      Constructor_Errors("PreprocessorDefinesView", << >>, s, f, runOk))

GetPageCount == Len(m_pages)

\* the threads' state becomes t
SetThreadState(t) ==
    /\ m_obtainFullHostNameThread' = t.thread
    /\ workers' = t.workers
    /\ pendingEvents' = t.events

\* wxEventLoopManual::ProcessEvents handles the queued events before it dispatches
\* the next message
NoPendingEvents == pendingEvents = << >>

\* wxSizeTowxString
wxSizeTowxString(x, y) == ToString(x) \o " x " \o ToString(y)

\* LogInformation(): the message it builds; the time stamp is an opaque text
LogMessage(information) == "<time>" \o ": " \o information \o "\n"

\* whether the bound on the log leaves room for one more entry
LogHasRoom ==
    IF m_logCtrl.created THEN Len(m_logCtrl.text) < MaxLog
    ELSE Len(m_unloggedInformation) < MaxLog

\* LogInformation with a fault: the message takes the place of the log's text
LogInformation_SetValue(information) ==
    IF m_logCtrl.created
    THEN /\ m_logCtrl' = [m_logCtrl EXCEPT !.text = << LogMessage(information) >>]
         /\ UNCHANGED m_unloggedInformation
    ELSE /\ m_unloggedInformation' = << LogMessage(information) >>
         /\ UNCHANGED m_logCtrl

\* LogInformation with a fault: nothing is logged unless auto-refresh is on
LogInformation_OnlyAutoRefresh(information) ==
    IF ~m_autoRefresh
    THEN UNCHANGED <<m_logCtrl, m_unloggedInformation>>
    ELSE IF m_logCtrl.created
    THEN /\ m_logCtrl' = [m_logCtrl EXCEPT !.text = Append(@, LogMessage(information))]
         /\ UNCHANGED m_unloggedInformation
    ELSE /\ m_unloggedInformation' = Append(m_unloggedInformation, LogMessage(information))
         /\ UNCHANGED m_logCtrl

\* wxSystemInformationFrame::LogInformation
LogInformation(information) ==
    IF m_logCtrl.created
    THEN /\ m_logCtrl' = [m_logCtrl EXCEPT !.text = Append(@, LogMessage(information))]
         /\ UNCHANGED m_unloggedInformation
    ELSE /\ m_unloggedInformation' = Append(m_unloggedInformation, LogMessage(information))
         /\ UNCHANGED m_logCtrl

\* wxTimer::StartOnce(milliseconds): a running timer is stopped and started again
StartOnce(milliseconds) == [running |-> TRUE, left |-> milliseconds, oneShot |-> TRUE]

\* TriggerValuesUpdate with a fault: the test of m_autoRefresh is the wrong way round
TriggerValuesUpdate_Inverted ==
    IF m_autoRefresh
    THEN UNCHANGED m_valuesUpdateTimer
    ELSE m_valuesUpdateTimer' = StartOnce(updateTimerDuration)

\* TriggerValuesUpdate with a fault: a timer that is already running is left alone
TriggerValuesUpdate_NoRestart ==
    IF ~m_autoRefresh \/ m_valuesUpdateTimer.running
    THEN UNCHANGED m_valuesUpdateTimer
    ELSE m_valuesUpdateTimer' = StartOnce(updateTimerDuration)

\* wxSystemInformationFrame::TriggerValuesUpdate
TriggerValuesUpdate ==
    IF ~m_autoRefresh
    THEN UNCHANGED m_valuesUpdateTimer
    ELSE m_valuesUpdateTimer' = StartOnce(updateTimerDuration)

\* the UI thread runs one event handler at a time, to its end
UIThreadIdle == calls = <<>>

\* history: a change notification was received; burst counts the notifications that
\* no timer-driven refresh has answered yet, sinceNotify the time since the last one
Notified ==
    /\ burst < MaxBurst
    /\ burst' = burst + 1
    /\ sinceNotify' = 0

\* the value sinceNotify stops counting at
SinceCap == updateTimerDuration + Tick

\* the hand-over with a fault: the loop starts at the second buffered entry
NewLogCtrl_SkipsFirst(unlogged) ==
    [created |-> TRUE, text |-> IF unlogged = << >> THEN << >> ELSE Tail(unlogged)]

\* Create(): the new, empty log control and the loop that appends to it every
\* entry of m_unloggedInformation, from the first to the last
NewLogCtrl(unlogged) ==
    [created |-> TRUE, text |-> unlogged]

\* the constructor, up to the return of wxFrame::Create() and the assignment of m_autoRefresh
Create_Flags ==
    /\ phase = "ctor"
    /\ phase' = "flags"
    /\ m_autoRefresh' = HasFlag(createFlags, AutoRefresh)
    /\ UNCHANGED <<createFlags, m_pages, m_logCtrl, m_unloggedInformation, m_valuesUpdateTimer,
                   calls, sinceNotify, burst, out, file, saveResult,
                   wxLog, saving, m_obtainFullHostNameThread, workers,
                   pendingEvents, detailsButton, currentPage, detail>>

\* the rest of Create(): the pages, the log control, the entries logged before it
\* existed, the timer's owner and the event bindings
Create_Controls ==
    /\ phase = "flags"
    /\ phase' = "ready"
    /\ \E s \in Sys, f \in InsertFailures :
       \E runOk \in IF HasFlag(createFlags, ViewMiscellaneous) THEN BOOLEAN ELSE {TRUE} :
           /\ m_pages' = CreatePages(createFlags, s, f)
           /\ wxLog' = CreatePages_Errors(createFlags, s, f, runOk)
           /\ SetThreadState(
                  IF HasFlag(createFlags, ViewMiscellaneous)
                  THEN StartObtainFullHostNameThread(ThreadState, wxGetFullHostName(s), runOk)
                  ELSE ThreadState)
    /\ detailsButton' = IF HasFlag(createFlags, ViewSystemColours)
                           \/ HasFlag(createFlags, ViewSystemFonts)
                        THEN "enabled" ELSE "none"
    /\ currentPage' = IF createFlags \div 2 > 0 THEN 1 ELSE 0
    /\ m_logCtrl' = NewLogCtrl(m_unloggedInformation)
    /\ UNCHANGED <<createFlags, m_autoRefresh, m_unloggedInformation, m_valuesUpdateTimer,
                   calls, sinceNotify, burst, out, file, saveResult, saving, detail>>

\* wxSystemInformationFrame::MSWWindowProc for WM_SETTINGCHANGE: the window exists
\* from the start of wxFrame::Create(), so the message can arrive in any phase
MSWWindowProc_SettingChange ==
    /\ UIThreadIdle
    /\ LogHasRoom
    /\ LogInformation("WM_SETTINGCHANGE received: wParam = 0, lParam =\"\"")
    /\ TriggerValuesUpdate
    /\ Notified
    /\ UNCHANGED <<phase, createFlags, m_autoRefresh, m_pages, calls, out, file, saveResult,
                   wxLog, saving, m_obtainFullHostNameThread, workers,
                   pendingEvents, detailsButton, currentPage, detail>>

\* wxSystemInformationFrame::MSWWindowProc for WM_THEMECHANGED
MSWWindowProc_ThemeChanged ==
    /\ UIThreadIdle
    /\ LogHasRoom
    /\ LogInformation("WM_THEMECHANGED received: wParam = 0, lParam = 0")
    /\ TriggerValuesUpdate
    /\ Notified
    /\ UNCHANGED <<phase, createFlags, m_autoRefresh, m_pages, calls, out, file, saveResult,
                   wxLog, saving, m_obtainFullHostNameThread, workers,
                   pendingEvents, detailsButton, currentPage, detail>>

\* wxSystemInformationFrame::OnSysColourChanged (bound at the end of Create())
OnSysColourChanged ==
    /\ phase = "ready"
    /\ UIThreadIdle
    /\ LogHasRoom
    /\ LogInformation("wxSysColourChangedEvent received.")
    /\ TriggerValuesUpdate
    /\ Notified
    /\ UNCHANGED <<phase, createFlags, m_autoRefresh, m_pages, calls, out, file, saveResult,
                   wxLog, saving, m_obtainFullHostNameThread, workers,
                   pendingEvents, detailsButton, currentPage, detail>>

\* wxSystemInformationFrame::OnDisplayChanged
OnDisplayChanged ==
    /\ phase = "ready"
    /\ UIThreadIdle
    /\ LogHasRoom
    /\ LogInformation("wxDisplayChangedEvent received.")
    /\ TriggerValuesUpdate
    /\ Notified
    /\ UNCHANGED <<phase, createFlags, m_autoRefresh, m_pages, calls, out, file, saveResult,
                   wxLog, saving, m_obtainFullHostNameThread, workers,
                   pendingEvents, detailsButton, currentPage, detail>>

\* wxSystemInformationFrame::OnDPIChanged
OnDPIChanged ==
    /\ phase = "ready"
    /\ UIThreadIdle
    /\ LogHasRoom
    /\ LogInformation("wxDPIChangedEvent received: old DPI = " \o wxSizeTowxString(96, 96)
                      \o ", new DPI = " \o wxSizeTowxString(120, 120) \o ".")
    /\ TriggerValuesUpdate
    /\ Notified
    /\ UNCHANGED <<phase, createFlags, m_autoRefresh, m_pages, calls, out, file, saveResult,
                   wxLog, saving, m_obtainFullHostNameThread, workers,
                   pendingEvents, detailsButton, currentPage, detail>>

\* time passes: by at most Tick, and not past the expiry of the running timer
Advance ==
    /\ UIThreadIdle
    /\ ~(m_valuesUpdateTimer.running /\ m_valuesUpdateTimer.left = 0)
    /\ LET d == IF m_valuesUpdateTimer.running THEN Min(Tick, m_valuesUpdateTimer.left) ELSE Tick
       IN  /\ sinceNotify + d <= SinceCap \/ m_valuesUpdateTimer.running
           /\ sinceNotify' = Min(sinceNotify + d, SinceCap)
           /\ m_valuesUpdateTimer' =
                  IF m_valuesUpdateTimer.running
                  THEN [m_valuesUpdateTimer EXCEPT !.left = @ - d]
                  ELSE m_valuesUpdateTimer
    /\ UNCHANGED <<phase, createFlags, m_autoRefresh, m_pages, m_logCtrl, m_unloggedInformation,
                   calls, burst, out, file, saveResult, wxLog, saving,
                   m_obtainFullHostNameThread, workers, pendingEvents,
                   detailsButton, currentPage, detail>>

\* the call of wxSystemInformationFrame::UpdateValues(): its activation, which has
\* updated no page yet
BeginUpdateValues(by) == calls' = Append(calls, [by |-> by, i |-> 0, updated |-> <<>>])

\* OnUpdateValuesTimer with a fault: the timer's event is handled while another
\* handler is still running
OnUpdateValuesTimer_Reentrant ==
    /\ phase = "ready"
    /\ LogHasRoom
    /\ m_valuesUpdateTimer.running
    /\ m_valuesUpdateTimer.left = 0
    /\ m_valuesUpdateTimer' = [m_valuesUpdateTimer EXCEPT !.running = FALSE]
    /\ BeginUpdateValues("timer")
    /\ UNCHANGED <<phase, createFlags, m_autoRefresh, m_pages, m_logCtrl, m_unloggedInformation,
                   sinceNotify, burst, out, file, saveResult, wxLog,
                   saving, m_obtainFullHostNameThread, workers,
                   pendingEvents, detailsButton, currentPage, detail>>

\* wxSystemInformationFrame::OnUpdateValuesTimer: the timer's event, sent when its
\* time is up; a one-shot timer has stopped by then
OnUpdateValuesTimer ==
    /\ phase = "ready"
    /\ UIThreadIdle
    /\ NoPendingEvents
    /\ LogHasRoom
    /\ m_valuesUpdateTimer.running
    /\ m_valuesUpdateTimer.left = 0
    /\ m_valuesUpdateTimer' =
           IF m_valuesUpdateTimer.oneShot
           THEN [m_valuesUpdateTimer EXCEPT !.running = FALSE]
           ELSE [m_valuesUpdateTimer EXCEPT !.left = updateTimerDuration]
    /\ BeginUpdateValues("timer")
    /\ UNCHANGED <<phase, createFlags, m_autoRefresh, m_pages, m_logCtrl, m_unloggedInformation,
                   sinceNotify, burst, out, file, saveResult, wxLog,
                   saving, m_obtainFullHostNameThread, workers,
                   pendingEvents, detailsButton, currentPage, detail>>

\* wxSystemInformationFrame::OnRefresh: the Refresh button
OnRefresh ==
    /\ phase = "ready"
    /\ UIThreadIdle
    /\ NoPendingEvents
    /\ ~saving
    /\ LogHasRoom
    /\ BeginUpdateValues("button")
    /\ UNCHANGED <<phase, createFlags, m_autoRefresh, m_pages, m_logCtrl, m_unloggedInformation,
                   m_valuesUpdateTimer, sinceNotify, burst, out, file,
                   saveResult, wxLog, saving, m_obtainFullHostNameThread,
                   workers, pendingEvents, detailsButton, currentPage,
                   detail>>

\* wxSystemInformationFrame::RefreshValues, called by the application
RefreshValues ==
    /\ phase = "ready"
    /\ UIThreadIdle
    /\ NoPendingEvents
    /\ LogHasRoom
    /\ BeginUpdateValues("api")
    /\ UNCHANGED <<phase, createFlags, m_autoRefresh, m_pages, m_logCtrl, m_unloggedInformation,
                   m_valuesUpdateTimer, sinceNotify, burst, out, file,
                   saveResult, wxLog, saving, m_obtainFullHostNameThread,
                   workers, pendingEvents, detailsButton, currentPage,
                   detail>>

\* wxSystemInformationFrame::UpdateValues: one turn of the loop over the pages
UpdateValues_Page ==
    /\ calls # <<>>
    /\ LET top == calls[Len(calls)]
       IN  /\ top.i < GetPageCount
           /\ \E s \in Sys, f \in InsertFailures :
              \E w \in ThreadInputs(m_pages[top.i + 1].view.kind, Sys, SysNormal) :
              \E runOk \in ThreadInputs(m_pages[top.i + 1].view.kind, BOOLEAN, TRUE) :
                  /\ m_pages' = [m_pages EXCEPT ![top.i + 1].view =
                                     SysInfoListView_UpdateValues(@, s, f)]
                  /\ wxLog' = UpdateValues_Errors(m_pages[top.i + 1].view.kind, s, runOk)
                  /\ SetThreadState(UpdateValues_Threads(m_pages[top.i + 1].view.kind, ThreadState,
                                                         wxGetFullHostName(w), runOk))
           /\ calls' = [calls EXCEPT ![Len(calls)] =
                            [top EXCEPT !.i = @ + 1, !.updated = Append(@, top.i)]]
    /\ UNCHANGED <<phase, createFlags, m_autoRefresh, m_logCtrl, m_unloggedInformation,
                   m_valuesUpdateTimer, sinceNotify, burst, out, file,
                   saveResult, saving, detailsButton, currentPage,
                   detail>>

\* UpdateValues with a fault: the loop stops one page early
UpdateValues_Log_Early ==
    /\ calls # <<>>
    /\ calls[Len(calls)].i >= GetPageCount - 1
    /\ LogInformation("System values were refreshed.")
    /\ calls' = SubSeq(calls, 1, Len(calls) - 1)
    /\ burst' = IF calls[Len(calls)].by = "timer" THEN 0 ELSE burst
    /\ UNCHANGED <<phase, createFlags, m_autoRefresh, m_pages, m_valuesUpdateTimer,
                   sinceNotify, out, file, saveResult, wxLog, saving,
                   m_obtainFullHostNameThread, workers, pendingEvents,
                   detailsButton, currentPage, detail>>

\* wxSystemInformationFrame::UpdateValues: after the loop, the log entry and the return
UpdateValues_Log ==
    /\ calls # <<>>
    /\ calls[Len(calls)].i >= GetPageCount
    /\ LogInformation("System values were refreshed.")
    /\ calls' = SubSeq(calls, 1, Len(calls) - 1)
    /\ burst' = IF calls[Len(calls)].by = "timer" THEN 0 ELSE burst
    /\ UNCHANGED <<phase, createFlags, m_autoRefresh, m_pages, m_valuesUpdateTimer,
                   sinceNotify, out, file, saveResult, wxLog, saving,
                   m_obtainFullHostNameThread, workers, pendingEvents,
                   detailsButton, currentPage, detail>>

\* wxSystemInformationFrame::OnClearLog
OnClearLog ==
    /\ phase = "ready"
    /\ UIThreadIdle
    /\ ~saving
    /\ m_logCtrl.text # <<>>
    /\ m_logCtrl' = [m_logCtrl EXCEPT !.text = <<>>]
    /\ UNCHANGED <<phase, createFlags, m_autoRefresh, m_pages, m_unloggedInformation,
                   m_valuesUpdateTimer, calls, sinceNotify, burst, out,
                   file, saveResult, wxLog, saving,
                   m_obtainFullHostNameThread, workers, pendingEvents,
                   detailsButton, currentPage, detail>>

\* the user selects item r of page p's view, or (r = -1) takes the selection away
SelectItem ==
    /\ phase = "ready"
    /\ UIThreadIdle
    /\ ~saving
    /\ \E p \in 1..GetPageCount :
       \E r \in -1..(GetItemCount(m_pages[p].view) - 1) :
           /\ r # m_pages[p].view.selected
           /\ m_pages' = [m_pages EXCEPT ![p].view =
                              IF r = -1 THEN Select(@, -1) ELSE Focus(Select(@, r), r)]
    /\ UNCHANGED <<phase, createFlags, m_autoRefresh, m_logCtrl, m_unloggedInformation,
                   m_valuesUpdateTimer, calls, sinceNotify, burst, out,
                   file, saveResult, wxLog, saving,
                   m_obtainFullHostNameThread, workers, pendingEvents,
                   detailsButton, currentPage, detail>>

\* SysInfoListView::OnColumnEndDrag: the user has dragged column col to width w
SysInfoListView_OnColumnEndDrag(v, col, w) ==
    LET dragged == SetColumnWidth(v, col, w)
    IN  [dragged EXCEPT !.m_columnWidths =
             [c \in DOMAIN @ \cup {col} |-> IF c = col THEN GetColumnWidth(dragged, col) ELSE @[c]]]

OnColumnEndDrag ==
    /\ phase = "ready"
    /\ UIThreadIdle
    /\ ~saving
    /\ \E p \in 1..GetPageCount :
       \E col \in 0..(GetColumnCount(m_pages[p].view) - 1) :
       \E w \in UserWidths :
           m_pages' = [m_pages EXCEPT ![p].view = SysInfoListView_OnColumnEndDrag(@, col, w)]
    /\ UNCHANGED <<phase, createFlags, m_autoRefresh, m_logCtrl, m_unloggedInformation,
                   m_valuesUpdateTimer, calls, sinceNotify, burst, out,
                   file, saveResult, wxLog, saving,
                   m_obtainFullHostNameThread, workers, pendingEvents,
                   detailsButton, currentPage, detail>>

\* the application calls GetValues(separator) of page p's view
View_GetValues ==
    /\ phase = "ready"
    /\ UIThreadIdle
    /\ \E p \in 1..GetPageCount :
       \E separator \in Separators :
           out' = [page |-> p - 1, separator |-> separator,
                   values |-> GetValues(m_pages[p].view, separator)]
    /\ UNCHANGED <<phase, createFlags, m_autoRefresh, m_pages, m_logCtrl, m_unloggedInformation,
                   m_valuesUpdateTimer, calls, sinceNotify, burst, file,
                   saveResult, wxLog, saving, m_obtainFullHostNameThread,
                   workers, pendingEvents, detailsButton, currentPage,
                   detail>>

\* the page of the Miscellaneous view (0: there is none)
MiscellaneousPage ==
    IF \E p \in 1..GetPageCount : m_pages[p].view.kind = "MiscellaneousView"
    THEN CHOOSE p \in 1..GetPageCount : m_pages[p].view.kind = "MiscellaneousView"
    ELSE 0

\* a worker thread runs ObtainFullHostNameThread::Entry to its end
ObtainFullHostNameThread_Entry ==
    /\ \E id \in workers, s \in Sys :
           SetThreadState(Entry(ThreadState, id, wxGetFullHostName(s)))
    /\ UNCHANGED <<phase, createFlags, m_autoRefresh, m_pages, m_logCtrl, m_unloggedInformation,
                   m_valuesUpdateTimer, calls, sinceNotify, burst, out, file, saveResult,
                   wxLog, saving, detailsButton, currentPage, detail>>

\* the event loop hands the first queued event to
\* MiscellaneousView::OnObtainFullHostNameThread
OnObtainFullHostNameThread ==
    /\ phase = "ready"
    /\ UIThreadIdle
    /\ pendingEvents # << >>
    /\ MiscellaneousPage # 0
    /\ m_pages' = [m_pages EXCEPT ![MiscellaneousPage].view =
                       MiscellaneousView_OnObtainFullHostNameThread(@, Head(pendingEvents).string)]
    /\ pendingEvents' = Tail(pendingEvents)
    /\ UNCHANGED <<phase, createFlags, m_autoRefresh, m_logCtrl, m_unloggedInformation,
                   m_valuesUpdateTimer, calls, sinceNotify, burst, out, file, saveResult,
                   wxLog, saving, m_obtainFullHostNameThread, workers,
                   detailsButton, currentPage, detail>>

\* the frame is destroyed, and its views with it: MiscellaneousView::~MiscellaneousView
\* stops the thread, wxEvtHandler::~wxEvtHandler drops the events still queued for
\* the view, wxTimer::~wxTimer stops the timer
Destroy ==
    /\ phase = "ready"
    /\ UIThreadIdle
    /\ ~saving
    /\ phase' = "destroyed"
    /\ \E s \in IF MiscellaneousPage # 0 THEN Sys ELSE {SysNormal} :
           SetThreadState(
               [(IF MiscellaneousPage # 0
                 THEN StopObtainFullHostNameThread(ThreadState, wxGetFullHostName(s))
                 ELSE ThreadState) EXCEPT !.events = << >>])
    /\ m_pages' = << >>
    /\ currentPage' = 0
    /\ m_valuesUpdateTimer' = [m_valuesUpdateTimer EXCEPT !.running = FALSE]
    /\ UNCHANGED <<createFlags, m_autoRefresh, m_logCtrl, m_unloggedInformation,
                   calls, sinceNotify, burst, out, file, saveResult, wxLog, saving,
                   detailsButton, detail>>

\* the user shows another page of the notebook
OnPageChanged ==
    /\ phase = "ready"
    /\ UIThreadIdle
    /\ ~saving
    /\ \E p \in 1..GetPageCount : p # currentPage /\ currentPage' = p
    /\ UNCHANGED <<phase, createFlags, m_autoRefresh, m_pages, m_logCtrl, m_unloggedInformation,
                   m_valuesUpdateTimer, calls, sinceNotify, burst, out, file, saveResult,
                   wxLog, saving, m_obtainFullHostNameThread, workers, pendingEvents,
                   detailsButton, detail>>

\* wxSystemInformationFrame::OnUpdateUI: sent to the details button when the event
\* loop is idle
OnUpdateUI ==
    /\ phase = "ready"
    /\ UIThreadIdle
    /\ detailsButton # "none"
    /\ detailsButton' = IF currentPage # 0 /\ CanShowDetailedInformation(m_pages[currentPage].view)
                        THEN "enabled" ELSE "disabled"
    /\ UNCHANGED <<phase, createFlags, m_autoRefresh, m_pages, m_logCtrl, m_unloggedInformation,
                   m_valuesUpdateTimer, calls, sinceNotify, burst, out, file, saveResult,
                   wxLog, saving, m_obtainFullHostNameThread, workers, pendingEvents,
                   currentPage, detail>>

\* wxSystemInformationFrame::OnShowDetailedInformation: the details button, which
\* the user can press while it is enabled
OnShowDetailedInformation ==
    /\ phase = "ready"
    /\ UIThreadIdle
    /\ ~saving
    /\ detailsButton = "enabled"
    /\ IF currentPage # 0
       THEN \E s \in Sys :
            \E shown \in ShowDetailedInformation(m_pages[currentPage].view, s) :
                /\ wxLog' = shown.log
                /\ detail' = [by |-> "button", page |-> currentPage,
                              item |-> GetFirstSelected(m_pages[currentPage].view),
                              title |-> shown.title]
       ELSE UNCHANGED <<wxLog, detail>>
    /\ UNCHANGED <<phase, createFlags, m_autoRefresh, m_pages, m_logCtrl, m_unloggedInformation,
                   m_valuesUpdateTimer, calls, sinceNotify, burst, out, file, saveResult,
                   saving, m_obtainFullHostNameThread, workers, pendingEvents,
                   detailsButton, currentPage>>

\* the user activates (double click, Enter) item r of the view shown:
\* wxEVT_LIST_ITEM_ACTIVATED, bound to SysInfoListView::OnItemActivated
OnItemActivated ==
    /\ phase = "ready"
    /\ UIThreadIdle
    /\ ~saving
    /\ currentPage # 0
    /\ \E r \in 0..(GetItemCount(m_pages[currentPage].view) - 1), s \in Sys :
       \E shown \in SysInfoListView_OnItemActivated(m_pages[currentPage].view, r, s) :
           /\ wxLog' = shown.log
           /\ detail' = [by |-> "activated", page |-> currentPage, item |-> r,
                         title |-> shown.title]
    /\ UNCHANGED <<phase, createFlags, m_autoRefresh, m_pages, m_logCtrl, m_unloggedInformation,
                   m_valuesUpdateTimer, calls, sinceNotify, burst, out, file, saveResult,
                   saving, m_obtainFullHostNameThread, workers, pendingEvents,
                   detailsButton, currentPage>>

\* GetValues with a fault: the empty line is pushed before the first page too
wxSystemInformationFrame_GetValues_LeadingEmptyLine(separator) ==
    LET Step[i \in 0..GetPageCount] ==
            IF i = 0 THEN << >>
            ELSE Step[i - 1] \o << "" >>
                 \o << m_pages[i].text, "----------------------------" >>
                 \o GetValues(m_pages[i].view, separator)
    IN  Step[GetPageCount]

\* wxSystemInformationFrame::GetValues: Step[i] is `values` after the turn of the
\* loop for page i - 1
wxSystemInformationFrame_GetValues(separator) ==
    LET Step[i \in 0..GetPageCount] ==
            IF i = 0 THEN << >>
            ELSE Step[i - 1] \o (IF i - 1 > 0 THEN << "" >> ELSE << >>)
                 \o << m_pages[i].text, "----------------------------" >>
                 \o GetValues(m_pages[i].view, separator)
    IN  Step[GetPageCount]

\* the application calls GetValues(separator) of the frame
Frame_GetValues ==
    /\ phase = "ready"
    /\ UIThreadIdle
    /\ \E separator \in Separators :
           out' = [page |-> -1, separator |-> separator,
                   values |-> wxSystemInformationFrame_GetValues(separator)]
    /\ UNCHANGED <<phase, createFlags, m_autoRefresh, m_pages, m_logCtrl, m_unloggedInformation,
                   m_valuesUpdateTimer, calls, sinceNotify, burst, file,
                   saveResult, wxLog, saving, m_obtainFullHostNameThread,
                   workers, pendingEvents, detailsButton, currentPage,
                   detail>>

\* the file of the Save dialog: absent, or left by an earlier program
NoFile == [exists |-> FALSE, lines |-> << >>]

OldFile == [exists |-> TRUE, lines |-> << "old" >>]

\* the names wxFileSelector() returns: empty when the user cancels
FileNames == {"", "values.txt"}

\* wxTextFile::Clear: the lines read by Open() are dropped
wxTextFile_Clear(lines) == << >>

\* OnSave with a fault: textFile.Clear() is not called
OnSave_Lines_NoClear ==
    (IF file.exists THEN file.lines ELSE << >>) \o wxSystemInformationFrame_GetValues("\t")

\* OnSave: the lines of textFile when Write() is called: those of the file opened
\* and cleared (of the file created: none), then one AddLine() per line of GetValues()
OnSave_Lines ==
    (IF file.exists THEN wxTextFile_Clear(file.lines) ELSE << >>)
    \o wxSystemInformationFrame_GetValues("\t")

\* OnSave with a fault: the result of Open() / Create() is not looked at
OnSave_Proceeds_Unchecked(fileName, fileOk) == fileName # ""

\* OnSave: whether it gets past its three early returns
OnSave_Proceeds(fileName, fileOk) == fileName # "" /\ fileOk

\* wxSystemInformationFrame::OnSave, up to the file dialog, which is modal: the
\* frame takes no input while it is open, timers and notifications go on
OnSave_Prompt ==
    /\ phase = "ready"
    /\ UIThreadIdle
    /\ ~saving
    /\ saving' = TRUE
    /\ UNCHANGED <<phase, createFlags, m_autoRefresh, m_pages, m_logCtrl, m_unloggedInformation,
                   m_valuesUpdateTimer, calls, sinceNotify, burst, out, file, saveResult,
                   wxLog, m_obtainFullHostNameThread, workers,
                   pendingEvents, detailsButton, currentPage, detail>>

\* wxSystemInformationFrame::OnSave, from the return of wxFileSelector() on.
\* fileOk: textFile.Open() of the existing file, or textFile.Create() of the new
\* one, succeeds; writeOk: textFile.Write() succeeds.  wxTextFile reports its
\* failures itself, with wxLogSysError / wxLogError; Create() leaves an empty file.
OnSave ==
    /\ phase = "ready"
    /\ UIThreadIdle
    /\ saving
    /\ saving' = FALSE
    /\ \E fileName \in FileNames, fileOk \in BOOLEAN, writeOk \in BOOLEAN :
           /\ saveResult' = IF fileName = "" THEN "cancelled"
                            ELSE IF ~fileOk THEN "failed"
                            ELSE IF ~writeOk THEN "not written"
                            ELSE "written"
           /\ wxLog' = IF fileName = "" THEN << >>
                       ELSE IF ~fileOk
                       THEN IF file.exists THEN << "can't open file 'values.txt'" >>
                            ELSE << "can't create file 'values.txt'" >>
                       ELSE IF ~writeOk THEN << "can't write buffer 'values.txt' to disk." >>
                       ELSE << >>
           /\ file' = IF ~OnSave_Proceeds(fileName, fileOk) THEN file
                      ELSE IF writeOk THEN [exists |-> TRUE, lines |-> OnSave_Lines]
                      ELSE IF file.exists THEN file
                      ELSE [exists |-> TRUE, lines |-> << >>]
    /\ UNCHANGED <<phase, createFlags, m_autoRefresh, m_pages, m_logCtrl, m_unloggedInformation,
                   m_valuesUpdateTimer, calls, sinceNotify, burst, out,
                   m_obtainFullHostNameThread, workers, pendingEvents,
                   detailsButton, currentPage, detail>>

-----------------------------------------------------------------------------
(* The specifications *)

\* the createFlags the frame is constructed with, in the specification of the host panel
HostFlags ==
    { AutoRefresh + ViewSystemFonts + ViewPreprocessorDefines,
      ViewSystemOptions }

\* and in the specification of the views: every view, alone
ViewFlags ==
    { ViewSystemColours, ViewSystemFonts, ViewSystemMetrics, ViewDisplays, ViewStandardPaths,
      ViewSystemOptions, ViewEnvironmentVariables, ViewMiscellaneous, ViewPreprocessorDefines }

\* the state when the constructor calls Create(): the members' initializers
InitWith(flags, files) ==
    /\ phase = "ctor"
    /\ createFlags \in flags
    /\ m_autoRefresh = TRUE
    /\ m_pages = <<>>
    /\ m_logCtrl = [created |-> FALSE, text |-> <<>>]
    /\ m_unloggedInformation = <<>>
    /\ m_valuesUpdateTimer = [running |-> FALSE, left |-> 0, oneShot |-> FALSE]
    /\ calls = <<>>
    /\ sinceNotify = SinceCap
    /\ burst = 0
    /\ file \in files
    /\ saveResult = "none"
    /\ wxLog = << >>
    /\ saving = FALSE
    /\ m_obtainFullHostNameThread = 0
    /\ workers = {}
    /\ pendingEvents = << >>
    /\ detailsButton = "none"
    /\ currentPage = 0
    /\ detail = NoDetail
    /\ out = [page |-> -1, separator |-> "", values |-> <<>>]

Init == InitWith(HostFlags, {NoFile})

Next ==
    \/ Create_Flags
    \/ Create_Controls
    \/ MSWWindowProc_SettingChange
    \/ MSWWindowProc_ThemeChanged
    \/ OnSysColourChanged
    \/ OnDisplayChanged
    \/ OnDPIChanged
    \/ Advance
    \/ OnUpdateValuesTimer
    \/ OnRefresh
    \/ RefreshValues
    \/ UpdateValues_Page
    \/ UpdateValues_Log
    \/ OnClearLog

Spec == Init /\ [][Next]_vars

InitView == InitWith(ViewFlags, {NoFile})

NextView ==
    \/ Create_Flags
    \/ Create_Controls
    \/ OnRefresh
    \/ UpdateValues_Page
    \/ UpdateValues_Log
    \/ OnClearLog
    \/ SelectItem
    \/ OnColumnEndDrag
    \/ View_GetValues

SpecView == InitView /\ [][NextView]_vars

\* the createFlags of the frames whose values are exported: one page and two pages
ExportFlags ==
    { ViewSystemFonts,
      AutoRefresh + ViewDisplays + ViewStandardPaths }

InitExport == InitWith(ExportFlags, {NoFile, OldFile})

NextExport ==
    \/ Create_Flags
    \/ Create_Controls
    \/ OnRefresh
    \/ UpdateValues_Page
    \/ UpdateValues_Log
    \/ SelectItem
    \/ OnDisplayChanged
    \/ Frame_GetValues
    \/ OnSave_Prompt
    \/ OnSave

SpecExport == InitExport /\ [][NextExport]_vars

\* the createFlags of the frames with a Miscellaneous view: alone, and after another page
MiscFlags ==
    { ViewMiscellaneous,
      AutoRefresh + ViewSystemFonts + ViewMiscellaneous }

InitMisc == InitWith(MiscFlags, {NoFile})

NextMisc ==
    \/ Create_Flags
    \/ Create_Controls
    \/ OnRefresh
    \/ UpdateValues_Page
    \/ UpdateValues_Log
    \/ ObtainFullHostNameThread_Entry
    \/ OnObtainFullHostNameThread
    \/ Destroy

SpecMisc == InitMisc /\ [][NextMisc]_vars

\* the createFlags of the frames whose details button is used: a view with details
\* alone, and one beside a view without
DetailFlags ==
    { ViewSystemColours,
      ViewSystemFonts + ViewSystemMetrics }

InitDetails == InitWith(DetailFlags, {NoFile})

NextDetails ==
    \/ Create_Flags
    \/ Create_Controls
    \/ OnRefresh
    \/ UpdateValues_Page
    \/ UpdateValues_Log
    \/ SelectItem
    \/ OnPageChanged
    \/ OnUpdateUI
    \/ OnShowDetailedInformation
    \/ OnItemActivated

SpecDetails == InitDetails /\ [][NextDetails]_vars

\* the nine View flags
AllViewFlags ==
    { ViewSystemColours, ViewSystemFonts, ViewSystemMetrics, ViewDisplays, ViewStandardPaths,
      ViewSystemOptions, ViewEnvironmentVariables, ViewMiscellaneous, ViewPreprocessorDefines }

\* the createFlags of the frames whose pages are compared: no View flag, every
\* View flag alone and every two of them; AutoRefresh with some
PageFlags ==
    {0, AutoRefresh}
    \cup { a + b : a \in {0, AutoRefresh}, b \in {ViewSystemColours, ViewPreprocessorDefines} }
    \cup AllViewFlags
    \cup UNION { { a + b : b \in AllViewFlags \ {a} } : a \in AllViewFlags }

InitPages == InitWith(PageFlags, {NoFile})

NextPages ==
    \/ Create_Flags
    \/ Create_Controls
    \/ OnRefresh
    \/ UpdateValues_Page
    \/ UpdateValues_Log
    \/ OnPageChanged
    \/ ObtainFullHostNameThread_Entry
    \/ OnObtainFullHostNameThread

SpecPages == InitPages /\ [][NextPages]_vars

\* the createFlags of the frame whose refreshes are awaited: auto-refresh, one page
LiveFlags == { AutoRefresh + ViewSystemMetrics }

InitLive == InitWith(LiveFlags, {NoFile})

NextLive ==
    \/ Create_Flags
    \/ Create_Controls
    \/ MSWWindowProc_SettingChange
    \/ OnSysColourChanged
    \/ OnDisplayChanged
    \/ Advance
    \/ OnUpdateValuesTimer
    \/ OnRefresh
    \/ UpdateValues_Page
    \/ UpdateValues_Log
    \/ OnClearLog

\* The constructor and every handler run to their end (the UI thread is not
\* blocked); time passes, and the event loop delivers the event of a timer that is
\* due, however often the user's own events come in between.  Nothing obliges
\* the system to send a notification or the user to press a button.
FairLive ==
    /\ WF_vars(Create_Flags)
    /\ WF_vars(Create_Controls)
    /\ WF_vars(UpdateValues_Page)
    /\ WF_vars(UpdateValues_Log)
    /\ SF_vars(Advance)
    /\ SF_vars(OnUpdateValuesTimer)

SpecLive == InitLive /\ [][NextLive]_vars /\ FairLive

-----------------------------------------------------------------------------
(* Properties of the host panel, under Spec *)

\* a step in which a run of the host UpdateValues() starts
RunStarts == Len(calls') > Len(calls)

\* a step in which a run of the host UpdateValues() returns
RunEnds == Len(calls') < Len(calls)

\* a run of the host UpdateValues() started by `by` is in progress
Running(by) == \E k \in 1..Len(calls) : calls[k].by = by

\* a step in which a change notification is received
NotificationStep == sinceNotify' = 0 /\ burst' # burst

\* C1: with auto-refresh, a burst of notifications less than 750 ms apart causes
\* exactly one run of UpdateValues(), started by the timer 750 ms after the last
\* notification of the burst: every notification restarts the one one-shot timer,
\* which is therefore always due 750 ms after the latest notification; the
\* unanswered notifications of a burst have a refresh pending or in progress, the
\* timer's run starts exactly 750 ms after the last of them and leaves no second
\* refresh pending.
C1_Debounce ==
    /\ []((HasFlag(createFlags, AutoRefresh) /\ m_valuesUpdateTimer.running) =>
              /\ m_valuesUpdateTimer.oneShot
              /\ burst >= 1
              /\ m_valuesUpdateTimer.left + sinceNotify = updateTimerDuration)
    /\ []((HasFlag(createFlags, AutoRefresh) /\ burst >= 1) =>
              (m_valuesUpdateTimer.running \/ Running("timer")))
    /\ [][(HasFlag(createFlags, AutoRefresh) /\ NotificationStep) =>
              m_valuesUpdateTimer' = [running |-> TRUE, left |-> updateTimerDuration,
                                      oneShot |-> TRUE]]_vars
    /\ [][(HasFlag(createFlags, AutoRefresh) /\ RunStarts /\ calls'[Len(calls')].by = "timer") =>
              /\ m_valuesUpdateTimer.running
              /\ sinceNotify = updateTimerDuration
              /\ ~m_valuesUpdateTimer'.running]_vars
    /\ [][(HasFlag(createFlags, AutoRefresh) /\ RunEnds /\ calls[Len(calls)].by = "timer") =>
              ~m_valuesUpdateTimer'.running /\ burst' = 0]_vars

\* a timer-driven run has started 750 ms after the second notification of a burst
C1_Witness ==
    /\ HasFlag(createFlags, AutoRefresh)
    /\ Len(calls) = 1
    /\ calls[1].by = "timer"
    /\ burst = 2
    /\ sinceNotify = updateTimerDuration
    /\ ~m_valuesUpdateTimer.running

\* C2: in a frame created without AutoRefresh no run of UpdateValues() is ever
\* started by the timer: every run is an explicit one.
C2_NoAutoRefreshNoTimerRun ==
    ~HasFlag(createFlags, AutoRefresh) => ~Running("timer")

\* C3: in a frame created with AutoRefresh, when an explicit refresh (Refresh
\* button or RefreshValues()) returns, no refresh is pending: the debounce timer
\* is not running.
C3_ExplicitRefreshLeavesIdle ==
    [][(HasFlag(createFlags, AutoRefresh) /\ RunEnds
            /\ calls[Len(calls)].by \in {"button", "api"}) =>
           ~m_valuesUpdateTimer'.running]_vars

LogEntries == IF m_logCtrl.created THEN m_logCtrl.text ELSE m_unloggedInformation

\* C5: every run of the host UpdateValues() updates each page's view exactly once,
\* in tab order from page 0 to the last page (a step of the run updates the page
\* after those already updated and changes no other page), logs nothing before
\* the last view is updated, and then appends exactly one
\* "System values were refreshed." entry.
C5_PagesInOrderThenLog ==
    /\ [](\A k \in 1..Len(calls) :
              /\ calls[k].i <= GetPageCount
              /\ calls[k].updated = [n \in 1..calls[k].i |-> n - 1])
    /\ [][(calls # <<>> /\ ~RunEnds) => LogEntries' = LogEntries]_vars
    /\ [][(calls # <<>> /\ Len(calls') = Len(calls)) =>
              \A p \in 1..GetPageCount :
                  p # calls[Len(calls)].i + 1 => m_pages'[p] = m_pages[p]]_vars
    /\ [][RunEnds =>
              /\ calls[Len(calls)].updated = [n \in 1..GetPageCount |-> n - 1]
              /\ LogEntries' = Append(LogEntries, LogMessage("System values were refreshed."))]_vars

\* a run on a frame of two pages has updated page 0 and then page 1 and has not
\* logged yet
C5_Witness ==
    /\ GetPageCount = 2
    /\ Len(calls) = 1
    /\ calls[1].updated = <<0, 1>>
    /\ LogEntries = <<>>

\* the log's text grows by one entry at its end
Appended ==
    /\ Len(LogEntries') = Len(LogEntries) + 1
    /\ SubSeq(LogEntries', 1, Len(LogEntries)) = LogEntries

\* C17 as stated: whatever the step, the entries logged so far are still the first
\* entries of the log, in their order.
C17_AppendOnly ==
    [][/\ Len(LogEntries') >= Len(LogEntries)
       /\ SubSeq(LogEntries', 1, Len(LogEntries)) = LogEntries]_vars

\* C17, amended: a step that changes the log either appends one entry to it, or
\* empties the log control and changes nothing else (the Clear log button); the
\* hand-over of the buffered entries to the new control keeps them as they are.
C17_AppendOrClear ==
    [][LogEntries' # LogEntries =>
           \/ Appended
           \/ /\ m_logCtrl.created
              /\ m_logCtrl'.text = << >>
              /\ UNCHANGED <<phase, m_pages, m_valuesUpdateTimer, calls, m_unloggedInformation,
                             m_autoRefresh>>]_vars

\* the log control was cleared after it took over an entry logged during
\* construction, and one entry was logged since
C17_Witness ==
    /\ m_logCtrl.created
    /\ m_unloggedInformation # << >>
    /\ Len(m_logCtrl.text) = 1
    /\ m_logCtrl.text[1] # m_unloggedInformation[1]

\* the last entry of the log
LastEntry == LogEntries[Len(LogEntries)]

\* C21: every change notification appends exactly one entry to the log (to the
\* buffer while the log control does not exist yet), the entry of its own kind,
\* with auto-refresh on or off; besides the log (and the history of the
\* notifications) the step changes nothing but the timer, which it starts for
\* 750 ms, one shot, if m_autoRefresh is set and leaves alone if not.
C21_NotificationLogged ==
    /\ [][burst' = burst + 1 =>
              /\ Appended
              /\ IF m_autoRefresh
                 THEN m_valuesUpdateTimer' = [running |-> TRUE, left |-> updateTimerDuration,
                                              oneShot |-> TRUE]
                 ELSE m_valuesUpdateTimer' = m_valuesUpdateTimer
              /\ UNCHANGED <<phase, createFlags, m_autoRefresh, m_pages, calls, wxLog>>
              /\ m_logCtrl'.created = m_logCtrl.created]_vars
    /\ [][MSWWindowProc_SettingChange =>
              LastEntry' = LogMessage("WM_SETTINGCHANGE received: wParam = 0, lParam =\"\"")]_vars
    /\ [][MSWWindowProc_ThemeChanged =>
              LastEntry' = LogMessage("WM_THEMECHANGED received: wParam = 0, lParam = 0")]_vars
    /\ [][OnSysColourChanged =>
              LastEntry' = LogMessage("wxSysColourChangedEvent received.")]_vars
    /\ [][OnDisplayChanged =>
              LastEntry' = LogMessage("wxDisplayChangedEvent received.")]_vars
    /\ [][OnDPIChanged =>
              LastEntry' = LogMessage("wxDPIChangedEvent received: old DPI = 96 x 96, new DPI = 120 x 120.")]_vars

\* in a frame without auto-refresh a display change was just received and logged,
\* and no refresh is pending
C21_Witness ==
    /\ phase = "ready"
    /\ ~m_autoRefresh
    /\ ~m_valuesUpdateTimer.running
    /\ sinceNotify = 0
    /\ burst = 1
    /\ LogEntries # << >>
    /\ LastEntry = LogMessage("wxDisplayChangedEvent received.")

\* C25: while the log control does not exist it has no text and every entry is
\* appended to the buffer; the step that creates the control gives it exactly the
\* buffer's entries, in the buffer's order, each once; from then on nothing is
\* added to the buffer, and an entry logged is appended after the control's text,
\* so behind the buffered entries.
C25_BufferHandedOver ==
    /\ [](~m_logCtrl.created => m_logCtrl.text = << >>)
    /\ [][(~m_logCtrl.created /\ ~m_logCtrl'.created) =>
              \/ m_unloggedInformation' = m_unloggedInformation
              \/ /\ Len(m_unloggedInformation') = Len(m_unloggedInformation) + 1
                 /\ SubSeq(m_unloggedInformation', 1, Len(m_unloggedInformation))
                        = m_unloggedInformation]_vars
    /\ [][(~m_logCtrl.created /\ m_logCtrl'.created) =>
              /\ m_logCtrl'.text = m_unloggedInformation
              /\ m_unloggedInformation' = m_unloggedInformation]_vars
    /\ [][m_logCtrl.created =>
              /\ m_logCtrl'.created
              /\ m_unloggedInformation' = m_unloggedInformation
              /\ \/ m_logCtrl'.text = m_logCtrl.text
                 \/ m_logCtrl'.text = << >>
                 \/ /\ Len(m_logCtrl'.text) = Len(m_logCtrl.text) + 1
                    /\ SubSeq(m_logCtrl'.text, 1, Len(m_logCtrl.text)) = m_logCtrl.text]_vars

\* an entry was logged before the log control existed and a refresh was logged
\* after: the control shows the buffered entry first, once, and then the refresh
C25_Witness ==
    /\ m_logCtrl.created
    /\ Len(m_unloggedInformation) = 1
    /\ Len(m_logCtrl.text) = 2
    /\ m_logCtrl.text[1] = m_unloggedInformation[1]
    /\ m_logCtrl.text[2] = LogMessage("System values were refreshed.")

\* C27: whenever a change notification is received, the setting that
\* TriggerValuesUpdate() tests is the AutoRefresh bit of createFlags; in a frame
\* created without AutoRefresh no notification, however early, leaves the timer
\* running.
C27_SettingIsCreateFlag ==
    [][burst' = burst + 1 =>
           /\ m_autoRefresh = HasFlag(createFlags, AutoRefresh)
           /\ ~HasFlag(createFlags, AutoRefresh) => ~m_valuesUpdateTimer'.running]_vars

-----------------------------------------------------------------------------
(* Properties of the views, under SpecView *)

\* a step of a run of the host UpdateValues() that calls UpdateValues() of page p's view
PageUpdated(p) ==
    /\ calls # <<>>
    /\ Len(calls') = Len(calls)
    /\ calls[Len(calls)].i + 1 = p

\* the rows of a view as the pairs of parameter id (item data) and label
RowIds(v) == [i \in 1..Len(v.rows) |-> <<v.rows[i].data, v.rows[i].text[1]>>]

\* C6: after UpdateValues() of a view, if the rows are the same as before and a
\* row was selected, the same row is selected; if no row was selected and the
\* view has a row, row 0 is selected and focused.
C6_SelectionKept ==
    [][\A p \in 1..GetPageCount :
           PageUpdated(p) =>
               LET v == m_pages[p].view
                   w == m_pages'[p].view
               IN  /\ (RowIds(w) = RowIds(v) /\ v.selected # -1) => w.selected = v.selected
                   /\ (v.selected = -1 /\ GetItemCount(w) > 0) =>
                          (w.selected = 0 /\ w.focused = 0)]_vars

\* C7: a width recorded for a column by a user's resize is the column's width
\* after every refresh, for as long as the column is there and is not resized
\* again; UpdateValues() changes no recorded width and sets every column that
\* has none to autosize.
C7_ColumnWidths ==
    /\ [](\A p \in 1..GetPageCount :
              LET v == m_pages[p].view
              IN  \A c \in DOMAIN v.m_columnWidths :
                      c < GetColumnCount(v) => GetColumnWidth(v, c) = v.m_columnWidths[c])
    /\ [][\A p \in 1..GetPageCount :
              PageUpdated(p) =>
                  LET v == m_pages[p].view
                      w == m_pages'[p].view
                  IN  /\ w.m_columnWidths = v.m_columnWidths
                      /\ \A c \in 0..(GetColumnCount(w) - 1) :
                             GetColumnWidth(w, c) =
                                 IF c \in DOMAIN v.m_columnWidths
                                 THEN v.m_columnWidths[c]
                                 ELSE wxLIST_AUTOSIZE]_vars

\* the user's width of column 1 is in place after a refresh of the view, and
\* column 0, which was never resized, is at autosize
C7_Witness ==
    /\ Len(calls) = 1
    /\ calls[1].updated = <<0>>
    /\ LET v == m_pages[1].view
       IN  /\ 1 \in DOMAIN v.m_columnWidths
           /\ 0 \notin DOMAIN v.m_columnWidths
           /\ v.m_columnWidths[1] = 90
           /\ GetColumnWidth(v, 1) = 90
           /\ GetColumnWidth(v, 0) = wxLIST_AUTOSIZE

\* C23: in the displays view a recorded width belongs to a column index, not to a
\* display.  No step takes a recorded index away; a refresh changes no recorded
\* width, whatever number of displays it finds; after it the column of index i,
\* which shows display i - 1 of the displays found now, has the width recorded for
\* i, and an index that has no column now keeps its record for a later refresh.
C23_WidthKeyedByIndex ==
    [][\A p \in 1..GetPageCount :
           m_pages[p].view.kind = "DisplaysView" =>
               LET v == m_pages[p].view
                   w == m_pages'[p].view
               IN  /\ DOMAIN v.m_columnWidths \subseteq DOMAIN w.m_columnWidths
                   /\ PageUpdated(p) =>
                          /\ w.m_columnWidths = v.m_columnWidths
                          /\ \A i \in DOMAIN v.m_columnWidths :
                                 IF i < GetColumnCount(w)
                                 THEN /\ GetColumnWidth(w, i) = v.m_columnWidths[i]
                                      /\ i >= 1 =>
                                             w.columns[i + 1] = "wxDisplay(" \o ToString(i - 1) \o ")"
                                 ELSE w.m_columnWidths[i] = v.m_columnWidths[i]
                          /\ \A i \in 1..(GetColumnCount(w) - 1) :
                                 i \notin DOMAIN v.m_columnWidths =>
                                     GetColumnWidth(w, i) = wxLIST_AUTOSIZE]_vars

\* a refresh that found one display has just returned: the column of index 2 is
\* gone and the width the user gave it is still recorded
C23_Witness ==
    /\ Len(calls) = 1
    /\ calls[1].updated = <<0>>
    /\ m_pages[1].view.kind = "DisplaysView"
    /\ GetColumnCount(m_pages[1].view) = 2
    /\ 2 \in DOMAIN m_pages[1].view.m_columnWidths
    /\ m_pages[1].view.m_columnWidths[2] = 90

RECURSIVE Join(_, _)
Join(texts, separator) ==
    IF Len(texts) = 0 THEN ""
    ELSE IF Len(texts) = 1 THEN texts[1]
    ELSE texts[1] \o separator \o Join(Tail(texts), separator)

\* the line of column headings a view dumps first
HeaderLine(v, separator) ==
    IF v.kind = "DisplaysView"
    THEN Join(<<"Parameter">> \o Tail(v.columns), separator)
    ELSE Join(<<"Name", "Value">>, separator)

\* the line a view dumps for item i
ItemLine(v, i, separator) ==
    IF v.kind = "DisplaysView"
    THEN Join(v.rows[i + 1].text, separator)
    ELSE Join(<<v.rows[i + 1].text[1], v.rows[i + 1].text[2]>>, separator)

\* C9: GetValues(separator) of a view of N rows is N + 1 lines: the line of
\* column headings, then one line per row in row order; of a view without rows,
\* the line of headings alone.
C9_HeaderAndOneLinePerRow ==
    \A p \in 1..GetPageCount :
    \A separator \in Separators :
        LET v == m_pages[p].view
            values == GetValues(v, separator)
        IN  /\ Len(values) = GetItemCount(v) + 1
            /\ values[1] = HeaderLine(v, separator)
            /\ \A i \in 0..(GetItemCount(v) - 1) : values[i + 2] = ItemLine(v, i, separator)

\* GetValues() was called on a view of two rows and returned three lines
C9_Witness ==
    /\ out.page = 0
    /\ GetItemCount(m_pages[1].view) = 2
    /\ out.values = GetValues(m_pages[1].view, out.separator)
    /\ Len(out.values) = 3

\* the views that differ from v in their selected item, focused item, column
\* widths and recorded widths only
SameContents(v) ==
    { [v EXCEPT !.selected = sel, !.focused = foc,
                !.colWidth = [c \in 1..Len(v.columns) |-> width],
                !.m_columnWidths = recorded] :
          sel \in -1..(GetItemCount(v) - 1),
          foc \in {-1, GetItemCount(v) - 1},
          width \in UserWidths \cup {wxLIST_AUTOSIZE},
          recorded \in {EmptyMap, v.m_columnWidths} }

\* C10: GetValues(separator) is the same for two views with the same columns,
\* rows and cell texts, whatever their selected item, focused item and widths.
C10_IndependentOfSelectionAndWidths ==
    \A p \in 1..GetPageCount :
    \A separator \in Separators :
    \A w \in SameContents(m_pages[p].view) :
        GetValues(w, separator) = GetValues(m_pages[p].view, separator)

\* GetValues() was called on a view whose second item is selected and whose
\* column 0 the user has resized
C10_Witness ==
    /\ out.page = 0
    /\ out.values = GetValues(m_pages[1].view, out.separator)
    /\ m_pages[1].view.selected = 1
    /\ GetColumnWidth(m_pages[1].view, 0) \in UserWidths

\* the names in a view's first column, and whether they ascend strictly
RowNames(v) == [i \in 1..Len(v.rows) |-> v.rows[i].text[1]]

StrictlyAscending(names) ==
    \A i \in 1..Len(names) : \A j \in 1..Len(names) : i < j => StringLess(names[i], names[j])

\* every row of the view is a variable of the environment env, with its value
RowsAreVariables(v, env) ==
    \A i \in 1..Len(v.rows) :
        /\ v.rows[i].text[1] \in DOMAIN env
        /\ v.rows[i].text[2] = env[v.rows[i].text[1]]

\* the view has a row for every variable of the environment env
EveryVariableHasRow(v, env) == \A n \in DOMAIN env : \E i \in 1..Len(v.rows) : RowNames(v)[i] = n

\* C19 as stated: after every refresh of the environment-variables view its rows
\* ascend strictly by name and are, one for one, the variables of the process
\* environment.
C19_SortedOnePerVariable ==
    [][\A p \in 1..GetPageCount :
           (PageUpdated(p) /\ m_pages[p].view.kind = "EnvironmentVariablesView") =>
               LET w == m_pages'[p].view
               IN  /\ StrictlyAscending(RowNames(w))
                   /\ \E s \in Sys : RowsAreVariables(w, s.env) /\ EveryVariableHasRow(w, s.env)]_vars

\* C19, amended: after every refresh of the environment-variables view its rows
\* ascend strictly by name and each is a variable of the process environment with
\* its value; there is no row when the environment could not be read (the error
\* is logged); and a refresh that reads the environment and whose insertions all
\* succeed leaves a row for every variable.
C19_SortedVariables ==
    /\ [][\A p \in 1..GetPageCount :
              (PageUpdated(p) /\ m_pages[p].view.kind = "EnvironmentVariablesView") =>
                  LET w == m_pages'[p].view
                  IN  /\ StrictlyAscending(RowNames(w))
                      /\ \E s \in Sys : RowsAreVariables(w, s.env)
                      /\ wxLog' # << >> => w.rows = << >>]_vars
    /\ [](\A p \in 1..GetPageCount :
              m_pages[p].view.kind = "EnvironmentVariablesView" =>
                  \A s \in Sys :
                      s.envOk => EveryVariableHasRow(SysInfoListView_UpdateValues(m_pages[p].view, s, 0),
                                                     s.env))

\* a refresh has left the environment-variables view with the three variables of
\* the changed environment, in order
C19_Witness ==
    /\ GetPageCount = 1
    /\ calls # << >>
    /\ calls[1].updated = << 0 >>
    /\ m_pages[1].view.kind = "EnvironmentVariablesView"
    /\ RowNames(m_pages[1].view) = << "HOME", "PATH", "TMP" >>


\* the error EnvironmentVariablesView::DoUpdateValues reports
EnvMapError == "Could not retrieve system environment variables."

\* C26: a refresh of the environment-variables view reports at most one error,
\* the one of wxGetEnvMap(); the refresh that reports it leaves the view without
\* rows, whatever rows it had, and without a selected or focused row, and
\* GetValues() of the view is then the line of headings alone.
C26_EnvMapFailure ==
    [][\A p \in 1..GetPageCount :
           (PageUpdated(p) /\ m_pages[p].view.kind = "EnvironmentVariablesView") =>
               LET w == m_pages'[p].view
               IN  /\ wxLog' \in { << >>, << EnvMapError >> }
                   /\ wxLog' = << EnvMapError >> =>
                          /\ GetItemCount(w) = 0
                          /\ GetFirstSelected(w) = -1
                          /\ w.focused = -1
                          /\ \A separator \in Separators :
                                 GetValues(w, separator) = << HeaderLine(w, separator) >>]_vars

\* a refresh of the environment-variables view has just failed to read the
\* environment: the error is reported and the view is empty
C26_Witness ==
    /\ Len(calls) = 1
    /\ calls[1].updated = <<0>>
    /\ m_pages[1].view.kind = "EnvironmentVariablesView"
    /\ wxLog = << EnvMapError >>
    /\ GetItemCount(m_pages[1].view) = 0
    /\ GetFirstSelected(m_pages[1].view) = -1

\* C30: the preprocessor-defines view gets its rows from its first
\* UpdateValues(), the constructor's; every refresh after it leaves the rows as
\* they are, their number, their order, their item data and the text of every
\* cell, and the columns; it keeps a selected row selected and selects and
\* focuses row 0 if none was, and it sets the column widths again.
C30_DefinesFilledOnce ==
    /\ [](\A p \in 1..GetPageCount :
              m_pages[p].view.kind = "PreprocessorDefinesView" =>
                  GetItemCount(m_pages[p].view) > 0)
    /\ [][\A p \in 1..GetPageCount :
              (PageUpdated(p) /\ m_pages[p].view.kind = "PreprocessorDefinesView") =>
                  LET v == m_pages[p].view
                      w == m_pages'[p].view
                  IN  /\ w.rows = v.rows
                      /\ w.columns = v.columns
                      /\ w.m_columnWidths = v.m_columnWidths
                      /\ IF GetFirstSelected(v) # -1
                         THEN GetFirstSelected(w) = GetFirstSelected(v) /\ w.focused = v.focused
                         ELSE GetFirstSelected(w) = 0 /\ w.focused = 0
                      /\ \A c \in 0..(GetColumnCount(w) - 1) :
                             GetColumnWidth(w, c) =
                                 IF c \in DOMAIN v.m_columnWidths
                                 THEN v.m_columnWidths[c]
                                 ELSE wxLIST_AUTOSIZE]_vars

\* a refresh of the preprocessor-defines view has just returned: the view shows
\* the rows its constructor inserted, with row 1 still selected
C30_Witness ==
    /\ Len(calls) = 1
    /\ calls[1].updated = <<0>>
    /\ m_pages[1].view.kind = "PreprocessorDefinesView"
    /\ GetItemCount(m_pages[1].view) = Len(s_defineItems)
    /\ GetItemText(m_pages[1].view, 0, Column_Value) = s_defineItems[1].value
    /\ GetFirstSelected(m_pages[1].view) = 1
-----------------------------------------------------------------------------
(* Properties of the export, under SpecExport *)

\* the number of lines of GetValues(separator) of the frame before the title of page p
RECURSIVE LinesBefore(_, _)
LinesBefore(p, separator) ==
    IF p = 1 THEN 0
    ELSE LinesBefore(p - 1, separator) + 2
         + Len(GetValues(m_pages[p - 1].view, separator)) + 1

\* C11: GetValues(separator) of the frame is, page after page in tab order: an
\* empty line (not before the first page), the page's tab title, the line of
\* dashes, and the lines of GetValues(separator) of the page's view; nothing
\* follows the last page's lines, so the length is the sum over the pages of
\* 2 + the view's line count, plus one empty line for each page but the first.
C11_FrameGetValues ==
    \A separator \in Separators :
        LET values == wxSystemInformationFrame_GetValues(separator)
        IN  /\ phase = "ready" =>
                   Len(values) = LinesBefore(GetPageCount + 1, separator) - 1
            /\ \A p \in 1..GetPageCount :
                   LET at == LinesBefore(p, separator)
                       viewValues == GetValues(m_pages[p].view, separator)
                   IN  /\ p > 1 => values[at] = ""
                       /\ values[at + 1] = m_pages[p].text
                       /\ values[at + 2] = "----------------------------"
                       /\ SubSeq(values, at + 3, at + 2 + Len(viewValues)) = viewValues

\* GetValues() of a frame of two pages was called and returned the lines now
\* held by its views
C11_Witness ==
    /\ GetPageCount = 2
    /\ out.page = -1
    /\ out.values # << >>
    /\ out.values = wxSystemInformationFrame_GetValues(out.separator)
    /\ Len(calls) = 0
    /\ out.values[Len(GetValues(m_pages[1].view, out.separator)) + 3] = ""

\* a step in which OnSave() returns
SaveReturns == saving /\ ~saving'

-----------------------------------------------------------------------------
(* Properties of the Miscellaneous view's worker thread, under SpecMisc *)

\* the text of the Full Host Name cell; "none" when the view has no such row
FullHostNameCell ==
    IF MiscellaneousPage = 0 THEN "none"
    ELSE LET v == m_pages[MiscellaneousPage].view
             found == { i \in 0..(GetItemCount(v) - 1) : GetItemData(v, i) = Param_FullHostName }
         IN  IF found = {} THEN "none"
             ELSE GetItemText(v, CHOOSE i \in found : TRUE, Column_Value)

ThreadError == "Could not create the thread needed to obtain the full host name."

ResultOutstanding ==
    /\ m_obtainFullHostNameThread # 0
    /\ \/ m_obtainFullHostNameThread \in workers
       \/ \E k \in DOMAIN pendingEvents : pendingEvents[k].thread = m_obtainFullHostNameThread

\* C24: once a refresh (or the constructor) of the Miscellaneous view has started
\* the worker, the Full Host Name cell shows the placeholder for as long as the
\* result event of that worker has not been handled.
C24_PlaceholderUntilOwnResult ==
    (phase = "ready" /\ FullHostNameCell # "none" /\ ResultOutstanding) =>
        FullHostNameCell = "<Evaluating...>"

\* C28: a step that puts a result into the Full Host Name cell of a view that has
\* a worker puts there the result of that worker, the one started last: the event
\* handled is not one of a worker that a later refresh has replaced.
C28_OnlyLatestResult ==
    [][(/\ phase = "ready"
        /\ phase' = "ready"
        /\ m_obtainFullHostNameThread # 0
        /\ FullHostNameCell' # FullHostNameCell
        /\ FullHostNameCell' # "<Evaluating...>") =>
            /\ pendingEvents # << >>
            /\ Head(pendingEvents).thread = m_obtainFullHostNameThread]_vars

-----------------------------------------------------------------------------
(* Properties of the detail dialogs, under SpecDetails *)

\* C16: a call of ShowDetailedInformation() for a view whose
\* CanShowDetailedInformation() is false, or that has no selected row, opens no
\* dialog and logs no error.
C16_NoDetailsWithoutSelection ==
    [][(detail' # detail /\ detail'.by = "button"
          /\ ~CanShowDetailedInformation(m_pages[detail'.page].view)) =>
           /\ detail'.title = ""
           /\ wxLog' = << >>]_vars

\* the text of the name column of item r
RowName(v, r) == GetItemText(v, r, 0)

\* C22: the activation of row r of the view shown presents row r: the dialog
\* "Viewing <name of row r>" or, if the system has no valid value for it, the error
\* that names row r, whichever row is selected; in a view that does not override
\* DoShowDetailedInformation() it shows and logs nothing; and it changes no view:
\* no selection, no focus, no cell.
C22_ActivationShowsRow ==
    [][OnItemActivated =>
           LET v == m_pages[detail'.page].view
               r == detail'.item
           IN  /\ detail'.by = "activated"
               /\ detail'.page = currentPage
               /\ r \in 0..(GetItemCount(v) - 1)
               /\ CASE v.kind = "SystemColourView" ->
                           \/ detail'.title = "Viewing " \o RowName(v, r) /\ wxLog' = << >>
                           \/ detail'.title = ""
                                /\ wxLog' = << "Invalid colour for \"" \o RowName(v, r) \o "\"." >>
                    [] v.kind = "SystemFontView" ->
                           \/ detail'.title = "Viewing " \o RowName(v, r) /\ wxLog' = << >>
                           \/ detail'.title = ""
                                /\ wxLog' = << "Invalid font for \"" \o RowName(v, r) \o "\"." >>
                    [] OTHER -> detail'.title = "" /\ wxLog' = << >>
               /\ m_pages' = m_pages]_vars

\* row 1 was activated while no row was selected, and its dialog was shown
C22_Witness ==
    /\ detail.by = "activated"
    /\ detail.item = 1
    /\ detail.title = "Viewing " \o RowName(m_pages[detail.page].view, 1)
    /\ GetFirstSelected(m_pages[detail.page].view) = -1
    /\ wxLog = << >>

-----------------------------------------------------------------------------
(* Properties of the notebook's pages, under SpecPages *)

\* the order of the pages: for each, its View flag and the class of its view
PageOrder ==
    << [flag |-> ViewSystemColours, kind |-> "SystemColourView"],
       [flag |-> ViewSystemFonts, kind |-> "SystemFontView"],
       [flag |-> ViewSystemMetrics, kind |-> "SystemMetricView"],
       [flag |-> ViewDisplays, kind |-> "DisplaysView"],
       [flag |-> ViewStandardPaths, kind |-> "StandardPathsView"],
       [flag |-> ViewSystemOptions, kind |-> "SystemOptionsView"],
       [flag |-> ViewEnvironmentVariables, kind |-> "EnvironmentVariablesView"],
       [flag |-> ViewMiscellaneous, kind |-> "MiscellaneousView"],
       [flag |-> ViewPreprocessorDefines, kind |-> "PreprocessorDefinesView"] >>

PageRank(kind) == CHOOSE k \in 1..Len(PageOrder) : PageOrder[k].kind = kind

\* the pages' views' classes and tab titles, in tab order
PageKinds == [p \in 1..GetPageCount |-> m_pages[p].view.kind]

PageTitles == [p \in 1..GetPageCount |-> m_pages[p].text]

\* C18: once Create() has returned, the notebook has one page for each View flag of
\* createFlags and none for another, in the order colours, fonts, metrics,
\* displays, standard paths, system options, environment variables,
\* miscellaneous, preprocessor defines, hence a page if a View flag was given; and
\* no step changes which pages there are, their order or their titles.
C18_PagesMatchFlags ==
    /\ [](phase = "ready" =>
            /\ \A k \in 1..Len(PageOrder) :
                   Cardinality({ p \in 1..GetPageCount : PageKinds[p] = PageOrder[k].kind })
                       = IF HasFlag(createFlags, PageOrder[k].flag) THEN 1 ELSE 0
            /\ \A p \in 1..GetPageCount : \A q \in 1..GetPageCount :
                   p < q => PageRank(PageKinds[p]) < PageRank(PageKinds[q])
            /\ (\E k \in 1..Len(PageOrder) : HasFlag(createFlags, PageOrder[k].flag))
                   => GetPageCount >= 1)
    /\ [][(phase = "ready" /\ phase' = "ready") =>
              /\ PageKinds' = PageKinds
              /\ PageTitles' = PageTitles]_vars

\* a frame made with the flags of the system options and of the miscellaneous
\* view has these two pages, in this order, after a refresh
C18_Witness ==
    /\ phase = "ready"
    /\ createFlags = ViewSystemOptions + ViewMiscellaneous
    /\ PageKinds = << "SystemOptionsView", "MiscellaneousView" >>
    /\ m_logCtrl.text # << >>
    /\ calls = << >>

\* a step of a run that calls UpdateValues() of page p's view (and no step of a thread)
PageUpdatedInRun(p) == PageUpdated(p) /\ calls' # calls

\* the values a view shows are those of the snapshot s, each row's its own: a
\* colour or font that is invalid shows "<Invalid>", an option that is not set
\* "<Not Set>", and the other rows show their values
RowsShow(w, s) ==
    CASE w.kind = "SystemColourView" ->
             \A i \in 0..(GetItemCount(w) - 1) :
                 LET colour == s.colour[GetItemData(w, i) + 1]
                 IN  GetItemText(w, i, Column_Value) =
                         IF ~colour.ok THEN "<Invalid>"
                         ELSE IF colour.solid THEN colour.css
                         ELSE colour.css \o ", not solid"
      [] w.kind = "SystemFontView" ->
             \A i \in 0..(GetItemCount(w) - 1) :
                 LET font == s.font[GetItemData(w, i) + 1]
                 IN  GetItemText(w, i, Column_Value) = IF font.ok THEN font.desc ELSE "<Invalid>"
      [] w.kind = "SystemOptionsView" ->
             \A i \in 0..(GetItemCount(w) - 1) :
                 LET name == GetItemText(w, i, Column_Name)
                 IN  GetItemText(w, i, Column_Value) =
                         IF name \in DOMAIN s.options THEN s.options[name] ELSE "<Not Set>"
      [] w.kind = "EnvironmentVariablesView" ->
             IF s.envOk THEN RowsAreVariables(w, s.env) ELSE w.rows = << >>
      [] OTHER -> TRUE

\* C20: a query that fails during a refresh stops nothing.  The view's other rows
\* show the values of the same refresh; the step changes no other page and the
\* run goes on to the next page; a run in progress can always take its next
\* step; and the run returns only after the last page, appending its one
\* "System values were refreshed." entry.
C20_FailureIsolated ==
    /\ [][\A p \in 1..GetPageCount :
              PageUpdatedInRun(p) =>
                  /\ \E s \in Sys : RowsShow(m_pages'[p].view, s)
                  /\ \A q \in 1..GetPageCount : q # p => m_pages'[q] = m_pages[q]
                  /\ calls'[Len(calls)].i = p]_vars
    /\ [](calls # << >> => ENABLED (UpdateValues_Page \/ UpdateValues_Log))
    /\ [][RunEnds =>
              /\ calls[Len(calls)].i = GetPageCount
              /\ Appended
              /\ LogEntries'[Len(LogEntries')] = LogMessage("System values were refreshed.")]_vars

\* the first run of a frame with the fonts and the environment variables has
\* refreshed the fonts: the first font was valid when the frame was made (the
\* environment's two variables are of that time) and is invalid now, and the
\* second font has its new value; the run is about to refresh the other page
C20_Witness ==
    /\ createFlags = ViewSystemFonts + ViewEnvironmentVariables
    /\ m_logCtrl.text = << >>
    /\ Len(calls) = 1
    /\ calls[1].updated = << 0 >>
    /\ GetItemCount(m_pages[1].view) = 2
    /\ GetItemText(m_pages[1].view, 0, Column_Value) = "<Invalid>"
    /\ GetItemText(m_pages[1].view, 1, Column_Value) = "Courier 12"
    /\ RowNames(m_pages[2].view) = << "HOME", "PATH" >>

====
